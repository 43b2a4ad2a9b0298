--------------------------- MODULE TailoringProofs ---------------------------
(***************************************************************************)
(* Proofs about Tailoring: whatever the model answers, a bullet of the     *)
(* tailored resume is the candidate's own or a checked rewrite of it.      *)
(***************************************************************************)
EXTENDS Tailoring, Inductions

LEMMA RolesAreItems ==
    /\ Roles = 1 .. Len(Profile.experience)
    /\ \A i \in Roles : Profile.experience[i] \in Experience
<1>1. Profile.experience \in Seq(Experience)
  BY TailoringAssumption DEF Resume
<1> QED
  BY <1>1 DEF Roles

LEMMA RefsAreRoleRefs ==
    \A r \in Refs :
        /\ r \in Nat \X Nat
        /\ r = <<r[1], r[2]>>
        /\ r[1] \in Roles
        /\ r[2] \in DOMAIN Profile.experience[r[1]].bullets
<1> SUFFICES ASSUME NEW i \in Roles, NEW j \in DOMAIN Profile.experience[i].bullets
             PROVE  i \in Nat /\ j \in Nat
  BY DEF Refs
<1>1. Profile.experience[i].bullets \in Seq(Texts)
  BY RolesAreItems DEF Experience
<1> QED
  BY <1>1, RolesAreItems

LEMMA OriginalsAreTexts == \A r \in Refs : OriginalAt(r) \in Texts
<1> SUFFICES ASSUME NEW r \in Refs
             PROVE  Profile.experience[r[1]].bullets[r[2]] \in Texts
  BY DEF OriginalAt
<1>1. Profile.experience[r[1]].bullets \in Seq(Texts)
  BY RefsAreRoleRefs, RolesAreItems DEF Experience
<1> QED
  BY <1>1, RefsAreRoleRefs

LEMMA CandidatesAreRefs == Candidates \subseteq Refs
  BY DEF Candidates, Irrelevant, Recent

LEMMA FunctionsAreSequences ==
    ASSUME NEW S, NEW n \in Nat, NEW f \in [1 .. n -> S]
    PROVE  f \in Seq(S)
  OBVIOUS

LEMMA Concatenated ==
    ASSUME NEW S, NEW s \in Seq(S), NEW t \in Seq(S)
    PROVE  /\ Len(s \o t) = Len(s) + Len(t)
           /\ DOMAIN (s \o t) = 1 .. (Len(s) + Len(t))
           /\ \A k \in 1 .. Len(s) : (s \o t)[k] = s[k]
           /\ \A k \in 1 .. Len(t) : (s \o t)[Len(s) + k] = t[k]
  OBVIOUS

LEMMA AnswersAreSequences == Answers \subseteq Seq(Rewrites)
  BY DEF Answers, BoundedSeq, SeqOf

-----------------------------------------------------------------------------
(* Types, but for the skills, whose order no property here is about.       *)
Typed ==
    /\ stage \in {"scoring", "asking", "answering", "finishing", "done", "failed"}
    /\ candidates \subseteq Refs
    /\ role \in Roles \cup {0}
    /\ stage \in {"asking", "answering"} => role \in Roles
    /\ pending \in Seq(Rewrites)
    /\ returned \in Seq(Roles \X (Nat \X Nat))
    /\ bullets \in [Refs -> Texts]
    /\ discarded \subseteq (Nat \X Nat) \X Reasons

LEMMA GoOnTyped ==
    ASSUME NEW refs, refs \subseteq Refs, NEW i, GoOnAfter(refs, i)
    PROVE  /\ stage' \in {"asking", "finishing"}
           /\ role' \in Roles \cup {0}
           /\ stage' = "asking" => role' \in Roles
  BY RefsAreRoleRefs DEF GoOnAfter, RolesOf

LEMMA TypedInv == Spec => []Typed
<1>1. Init => Typed
  BY OriginalsAreTexts DEF Init, Typed
<1>2. Typed /\ [Next]_vars => Typed'
  <2> SUFFICES ASSUME Typed, [Next]_vars PROVE Typed'
    OBVIOUS
  <2> USE DEF Typed
  <2>1. CASE ScoreCandidates
    BY <2>1, GoOnTyped, CandidatesAreRefs DEF ScoreCandidates
  <2>2. ASSUME NEW answer \in Answers, Answered(answer) PROVE Typed'
    <3>1. answer \in Seq(Rewrites) /\ \A k \in DOMAIN answer : answer[k] \in RewriteType
      BY AnswersAreSequences, TailoringAssumption
    <3> DEFINE named == [k \in DOMAIN answer |-> <<role, answer[k].ref>>]
    <3>2. named \in Seq(Roles \X (Nat \X Nat))
      <4>1. DOMAIN answer = 1 .. Len(answer) /\ Len(answer) \in Nat
        BY <3>1
      <4>2. \A k \in 1 .. Len(answer) : <<role, answer[k].ref>> \in Roles \X (Nat \X Nat)
        BY <2>2, <3>1, <4>1 DEF Answered, RewriteType
      <4>3. named \in [1 .. Len(answer) -> Roles \X (Nat \X Nat)]
        BY <4>1, <4>2
      <4> HIDE DEF named
      <4> QED
        BY <4>1, <4>3, FunctionsAreSequences
    <3> QED
      BY <2>2, <3>1, <3>2 DEF Answered
  <2>3. CASE ModelFails
    BY <2>3 DEF ModelFails
  <2>4. CASE TakeRewrite
    <3> DEFINE w == Head(pending)
    <3>1. w \in RewriteType /\ Tail(pending) \in Seq(Rewrites)
      BY <2>4, TailoringAssumption DEF TakeRewrite
    <3>2. DiscardUnknown(w) \/ DiscardInvalid(w) => Typed'
      BY <2>4, <3>1 DEF TakeRewrite, DiscardUnknown, DiscardInvalid, Discard, Reasons, RewriteType
    <3>3. KeepUnchanged(w) \/ ApplyRewrite(w) => Typed'
      BY <2>4, <3>1 DEF TakeRewrite, KeepUnchanged, ApplyRewrite, RewriteType
    <3> QED
      BY <2>4, <3>2, <3>3 DEF TakeRewrite
  <2>5. CASE OmitMissing
    <3>1. Missing \subseteq Nat \X Nat
      BY RefsAreRoleRefs DEF Missing
    <3> QED
      BY <2>5, <3>1, GoOnTyped DEF OmitMissing, Reasons
  <2>6. ASSUME NEW first \in Renderings, NEW second \in Renderings, Finish(first, second)
        PROVE  Typed'
    BY <2>6 DEF Finish
  <2>7. CASE UNCHANGED vars
    BY <2>7 DEF vars
  <2> QED
    BY <2>1, <2>2, <2>3, <2>4, <2>5, <2>6, <2>7 DEF Next
<1> QED
  BY <1>1, <1>2, PTL DEF Spec

-----------------------------------------------------------------------------
(* A rewrite is compared with what the bullet said at first, so an earlier *)
(* accepted one gives the next no ground.                                  *)
LEMMA AppliedIsValid ==
    ASSUME Typed, NEW w, ApplyRewrite(w)
    PROVE  /\ bullets' = [bullets EXCEPT ![w.ref] = w.rewritten]
           /\ w.ref \in Refs
           /\ Facts[w.rewritten].fits
           /\ RewriteVerified(OriginalAt(w.ref), w.rewritten, Profile, Requirements)
  BY DEF Typed, ApplyRewrite, Valid

LEMMA BulletsOnlyRewritten ==
    ASSUME Typed, [Next]_vars
    PROVE  \/ UNCHANGED bullets
           \/ UNCHANGED candidates /\ \E w \in Rewrites : ApplyRewrite(w)
<1>1. TakeRewrite => \/ UNCHANGED bullets
                     \/ UNCHANGED candidates /\ \E w \in Rewrites : ApplyRewrite(w)
  BY DEF TakeRewrite, DiscardUnknown, DiscardInvalid, KeepUnchanged, Typed
<1> QED
  BY <1>1 DEF Next, vars, ScoreCandidates, Answered, ModelFails, OmitMissing, Finish

LEMMA CandidatesStay ==
    ASSUME Typed, [Next]_vars
    PROVE  candidates' = candidates \/ stage = "scoring"
  BY DEF Next, vars, ScoreCandidates, Answered, ModelFails, OmitMissing, Finish, TakeRewrite

(* Nothing has changed before the candidates are chosen.                   *)
Untouched == stage = "scoring" => \A r \in Refs : bullets[r] = OriginalAt(r)

(* Every bullet is the candidate's own, or a rewrite of what it said at    *)
(* first that passed the check.                                            *)
Verified ==
    \A r \in Refs :
        \/ bullets[r] = OriginalAt(r)
        \/ /\ r \in candidates
           /\ Facts[bullets[r]].fits
           /\ RewriteVerified(OriginalAt(r), bullets[r], Profile, Requirements)

LEMMA VerifiedInv == Spec => []Verified
<1>1. Init => Verified /\ Untouched
  BY DEF Init, Verified, Untouched
<1>2. Typed /\ Verified /\ Untouched /\ [Next]_vars => Verified' /\ Untouched'
  <2> SUFFICES ASSUME Typed, Verified, Untouched, [Next]_vars
               PROVE  Verified' /\ Untouched'
    OBVIOUS
  <2>1. stage' = "scoring" => UNCHANGED <<stage, bullets>>
    BY DEF Next, vars, ScoreCandidates, GoOnAfter, Answered, ModelFails, OmitMissing, Finish, TakeRewrite
  <2>2. Untouched'
    BY <2>1 DEF Untouched
  <2>3. CASE UNCHANGED bullets
    <3>1. CASE stage = "scoring"
      BY <2>2, <2>3, <3>1 DEF Verified, Untouched
    <3>2. CASE candidates' = candidates
      BY <2>2, <2>3, <3>2 DEF Verified
    <3> QED
      BY <3>1, <3>2, CandidatesStay
  <2>4. ASSUME NEW w \in Rewrites, ApplyRewrite(w), UNCHANGED candidates PROVE Verified'
    <3> SUFFICES ASSUME NEW r \in Refs
                 PROVE  \/ bullets'[r] = OriginalAt(r)
                        \/ /\ r \in candidates
                           /\ Facts[bullets'[r]].fits
                           /\ RewriteVerified(OriginalAt(r), bullets'[r], Profile, Requirements)
      BY <2>4 DEF Verified, OriginalAt
    <3>1. CASE r = w.ref
      BY <2>4, <3>1, AppliedIsValid DEF Typed, ApplyRewrite
    <3>2. CASE r # w.ref
      BY <2>4, <3>2, AppliedIsValid DEF Typed, Verified
    <3> QED
      BY <3>1, <3>2
  <2> QED
    BY <2>2, <2>3, <2>4, BulletsOnlyRewritten
<1> QED
  BY <1>1, <1>2, TypedInv, PTL DEF Spec

(* What a bullet says, the resume mentions.                                *)
LEMMA OriginalsAreMentioned ==
    ASSUME NEW r \in Refs
    PROVE  /\ Facts[OriginalAt(r)].mentions \subseteq ProfileMentions(Profile)
           /\ Facts[OriginalAt(r)].caps \subseteq ProfileCaps(Profile)
<1>1. PICK i \in Roles : \E j \in DOMAIN Profile.experience[i].bullets : r = <<i, j>>
  BY DEF Refs
<1>2. PICK j \in DOMAIN Profile.experience[i].bullets : r = <<i, j>>
  BY <1>1
<1>3. OriginalAt(r) = Profile.experience[i].bullets[j]
  BY <1>2 DEF OriginalAt
<1>4. OriginalAt(r) \in TextsOf(Profile)
  <2>1. Profile.experience[i] \in Elements(Profile.experience)
    BY DEF Elements, Roles
  <2>2. OriginalAt(r) \in Elements(Profile.experience[i].bullets)
    BY <1>2, <1>3 DEF Elements
  <2> QED
    BY <2>1, <2>2 DEF TextsOf, BulletsOf
<1> QED
  BY <1>4 DEF ProfileMentions, MentionedIn, ProfileCaps

(* No bullet of a tailored resume has a number, a date, an employer or a   *)
(* title of its own, a skill that the resume does not mention, or a        *)
(* capitalised word that is not backed and does more than open a sentence. *)
THEOREM ClaimsStayBacked == Spec => []ClaimsAreBacked
<1>1. Verified => ClaimsAreBacked
  <2> DEFINE lexicon   == TechLexicon(Requirements, Profile)
             protected == ProtectedStrings(Profile)
             backing   == ProfileCaps(Profile) \cup lexicon \cup protected
             Backing(r) ==
                 LET new == Facts[bullets[r]]
                     own == Facts[OriginalAt(r)]
                 IN  /\ new.numbers \subseteq own.numbers
                     /\ new.dates = own.dates
                     /\ new.mentions \cap protected = own.mentions \cap protected
                     /\ new.mentions \cap lexicon \subseteq ProfileMentions(Profile)
                     /\ new.caps \ new.openings \subseteq backing
  <2> SUFFICES ASSUME Verified, NEW r \in Refs PROVE Backing(r)
    BY DEF ClaimsAreBacked
  <2>1. CASE bullets[r] = OriginalAt(r)
    BY <2>1, OriginalsAreMentioned
  <2>2. CASE RewriteVerified(OriginalAt(r), bullets[r], Profile, Requirements)
    <3>1. /\ Facts[bullets[r]].numbers \subseteq Facts[OriginalAt(r)].numbers
          /\ Facts[bullets[r]].dates = Facts[OriginalAt(r)].dates
          /\ Facts[bullets[r]].mentions \cap protected = Facts[OriginalAt(r)].mentions \cap protected
          /\ (Facts[bullets[r]].mentions \cap lexicon) \ (Facts[OriginalAt(r)].mentions \cap lexicon)
                \subseteq ProfileMentions(Profile)
          /\ SuspiciousCaps(OriginalAt(r), bullets[r], Profile, lexicon, protected) = {}
      BY <2>2 DEF RewriteVerified, ExtractClaims
    <3>2. /\ Facts[OriginalAt(r)].mentions \subseteq ProfileMentions(Profile)
          /\ Facts[OriginalAt(r)].caps \subseteq ProfileCaps(Profile)
      BY OriginalsAreMentioned
    <3> HIDE DEF lexicon, protected
    <3>3. Facts[bullets[r]].caps \ Facts[bullets[r]].openings \subseteq backing
      BY <3>1, <3>2 DEF SuspiciousCaps
    <3> QED
      BY <3>1, <3>2, <3>3
  <2> QED
    BY <2>1, <2>2 DEF Verified
<1> QED
  BY <1>1, VerifiedInv, PTL

(* Tailoring keeps the promise about generated text.                       *)
THEOREM TailoringIsVetted == Spec => ImplementsVetted
<1>1. Init => Truthful!VettedInit
  BY DEF Init, Truthful!VettedInit
<1>2. Typed /\ [Next]_vars => [Truthful!VettedNext]_bullets
  <2> SUFFICES ASSUME Typed, NEW w \in Rewrites, ApplyRewrite(w)
               PROVE  Truthful!Rewrite(w.ref)
    BY BulletsOnlyRewritten, AppliedIsValid DEF Truthful!VettedNext
  <2>1. w.rewritten \in Texts
    BY TailoringAssumption DEF RewriteType
  <2> QED
    BY <2>1, AppliedIsValid DEF Truthful!Rewrite, MayStand, Typed
<1> QED
  BY <1>1, <1>2, TypedInv, PTL DEF Spec, ImplementsVetted, Truthful!VettedSpec

-----------------------------------------------------------------------------
(* The report.  First, what becomes of each candidate while the roles are  *)
(* put to the model one after the other.                                   *)

(* The rewrites not looked at yet are the last ones returned.              *)
PendingNamed ==
    /\ stage # "answering" => pending = << >>
    /\ Len(pending) <= Len(returned)
    /\ \A k \in 1 .. Len(pending) :
         returned[Len(returned) - Len(pending) + k] = <<role, pending[k].ref>>

Handled == {returned[k][2] : k \in 1 .. (Len(returned) - Len(pending))}

Fresh ==
    stage = "scoring" =>
        /\ candidates = {} /\ returned = << >> /\ discarded = {}
        /\ \A r \in Refs : bullets[r] = OriginalAt(r)

(* A candidate is still to come, or it is accounted for.                   *)
Accounted ==
    \A c \in candidates :
        \/ stage \in {"asking", "answering"} /\ c[1] >= role
        \/ stage = "failed"
        \/ c \in DiscardedRefs \cup ReturnedRefs

(* While the model keeps to one object per candidate, a bullet has changed *)
(* only if its object was handled, and one that is discarded was handled   *)
(* or belongs to a role that is done with.                                 *)
Kept ==
    AnswersInOrder =>
        /\ ChangedRefs \subseteq Handled
        /\ DiscardedRefs \cap ChangedRefs = {}
        /\ \A d \in DiscardedRefs :
             \/ d \in Handled
             \/ stage \in {"finishing", "done", "failed"}
             \/ stage \in {"asking", "answering"} /\ d[1] < role

LoopInv == PendingNamed /\ Fresh /\ Accounted /\ Kept

LEMMA GoOnReaches ==
    ASSUME NEW refs, refs \subseteq Refs, NEW i \in Nat, GoOnAfter(refs, i)
    PROVE  /\ stage' \in {"asking", "finishing"}
           /\ stage' = "asking" => role' \in Nat /\ role' > i
           /\ \A c \in refs : c[1] <= i \/ (stage' = "asking" /\ c[1] >= role')
<1>1. \A c \in refs : c[1] \in Nat
  BY RefsAreRoleRefs
<1> QED
  BY <1>1 DEF GoOnAfter, RolesOf

LEMMA ScoringKeeps ==
    ASSUME Typed, LoopInv, ScoreCandidates
    PROVE  LoopInv'
<1> USE DEF Typed, LoopInv, ScoreCandidates
<1>1. /\ stage' \in {"asking", "finishing"}
      /\ \A c \in Candidates : c[1] <= 0 \/ (stage' = "asking" /\ c[1] >= role')
  BY GoOnReaches, CandidatesAreRefs
<1>2. \A c \in Candidates : c[1] \in Nat \ {0}
  BY CandidatesAreRefs, RefsAreRoleRefs, RolesAreItems
<1>3. PendingNamed'
  BY <1>1 DEF PendingNamed, Fresh
<1>4. Accounted'
  BY <1>1, <1>2 DEF Accounted
<1>5. Kept'
  BY DEF Kept, Fresh, ChangedRefs, DiscardedRefs, OriginalAt
<1> QED
  BY <1>1, <1>3, <1>4, <1>5 DEF Fresh

LEMMA AnswerKeeps ==
    ASSUME Typed, LoopInv, NEW answer \in Answers, Answered(answer)
    PROVE  LoopInv'
<1> DEFINE named == [k \in DOMAIN answer |-> <<role, answer[k].ref>>]
<1> USE DEF Typed
<1>1. /\ stage = "asking" /\ stage' = "answering"
      /\ pending' = answer /\ pending = << >>
      /\ returned' = returned \o named
      /\ UNCHANGED <<candidates, role, bullets, discarded>>
  BY DEF Answered, LoopInv, PendingNamed
<1>2. /\ answer \in Seq(Rewrites)
      /\ Len(answer) \in Nat /\ DOMAIN answer = 1 .. Len(answer)
      /\ \A k \in DOMAIN answer : answer[k] \in RewriteType
  BY AnswersAreSequences, TailoringAssumption
<1>3. named \in Seq(Roles \X (Nat \X Nat)) /\ Len(named) = Len(answer)
  <2>1. \A k \in 1 .. Len(answer) : <<role, answer[k].ref>> \in Roles \X (Nat \X Nat)
    BY <1>1, <1>2 DEF RewriteType
  <2>2. named \in [1 .. Len(answer) -> Roles \X (Nat \X Nat)]
    BY <2>1, <1>2
  <2>3. DOMAIN named = 1 .. Len(answer)
    BY <1>2
  <2> HIDE DEF named
  <2>4. named \in Seq(Roles \X (Nat \X Nat))
    BY <2>2, <1>2, FunctionsAreSequences
  <2> QED
    BY <2>3, <2>4, <1>2
<1>4. \A k \in 1 .. Len(answer) : named[k] = <<role, answer[k].ref>>
  BY <1>2
<1> HIDE DEF named
<1>5. /\ Len(returned') = Len(returned) + Len(answer)
      /\ DOMAIN returned' = 1 .. (Len(returned) + Len(answer))
      /\ \A k \in 1 .. Len(returned) : returned'[k] = returned[k]
      /\ \A k \in 1 .. Len(answer) : returned'[Len(returned) + k] = named[k]
  <2> DEFINE Named  == Roles \X (Nat \X Nat)
             longer == returned \o named
  <2>1. returned \in Seq(Named) /\ named \in Seq(Named)
    BY <1>3
  <2>2. returned' = longer
    BY <1>1
  <2> HIDE DEF Typed, Named
  <2>3. /\ Len(longer) = Len(returned) + Len(named)
        /\ DOMAIN longer = 1 .. (Len(returned) + Len(named))
        /\ \A k \in 1 .. Len(returned) : longer[k] = returned[k]
        /\ \A k \in 1 .. Len(named) : longer[Len(returned) + k] = named[k]
    BY ONLY <2>1, Concatenated
  <2> HIDE DEF longer
  <2> QED
    BY <1>3, <2>2, <2>3
<1>6. PendingNamed'
  BY <1>1, <1>2, <1>4, <1>5 DEF PendingNamed
<1>7. Handled' = Handled
  <2>1. Len(returned') - Len(pending') = Len(returned) - Len(pending)
    BY <1>1, <1>2, <1>5
  <2>2. \A k \in 1 .. (Len(returned) - Len(pending)) : returned'[k] = returned[k]
    BY <1>1, <1>5
  <2> QED
    BY <2>1, <2>2 DEF Handled
<1>8. AnswersInOrder' => AnswersInOrder
  <2>1. DOMAIN returned = 1 .. Len(returned)
    OBVIOUS
  <2>2. DOMAIN returned \subseteq DOMAIN returned'
    BY <2>1, <1>5, <1>2
  <2> QED
    BY <2>1, <2>2, <1>5 DEF AnswersInOrder
<1>9. ReturnedRefs \subseteq ReturnedRefs'
  <2>1. DOMAIN returned = 1 .. Len(returned)
    OBVIOUS
  <2>2. \A k \in DOMAIN returned : k \in DOMAIN returned' /\ returned'[k] = returned[k]
    BY <2>1, <1>5, <1>2
  <2> QED
    BY <2>2 DEF ReturnedRefs
<1>10. UNCHANGED <<ChangedRefs, DiscardedRefs>>
  BY <1>1 DEF ChangedRefs, DiscardedRefs, OriginalAt
<1>11. Accounted'
  BY <1>1, <1>9, <1>10 DEF LoopInv, Accounted
<1>12. Kept'
  BY <1>1, <1>7, <1>8, <1>10 DEF LoopInv, Kept
<1> QED
  BY <1>1, <1>6, <1>11, <1>12 DEF LoopInv, Fresh

LEMMA TakingAdvances ==
    ASSUME Typed, PendingNamed, TakeRewrite
    PROVE  /\ PendingNamed'
           /\ Handled' = Handled \cup {Head(pending).ref}
           /\ \E n \in DOMAIN returned :
                /\ returned[n] = <<role, Head(pending).ref>>
                /\ \A r \in Handled : \E k \in DOMAIN returned : k # n /\ returned[k][2] = r
<1> USE DEF Typed
<1> DEFINE n == Len(returned) - Len(pending) + 1
<1>1. /\ stage = "answering" /\ stage' = "answering"
      /\ pending # << >> /\ pending' = Tail(pending)
      /\ UNCHANGED <<role, returned>>
  BY DEF TakeRewrite
<1>2. /\ Len(pending) \in Nat \ {0} /\ Len(returned) \in Nat
      /\ Len(pending') = Len(pending) - 1
      /\ \A k \in 1 .. Len(pending') : pending'[k] = pending[k + 1]
      /\ Head(pending) = pending[1]
  BY <1>1
<1>3. n \in 1 .. Len(returned) /\ n \in Nat
  BY <1>2 DEF PendingNamed
<1>4. returned[n] = <<role, Head(pending).ref>>
  BY <1>1, <1>2 DEF PendingNamed
<1>5. PendingNamed'
  <2>1. \A k \in 1 .. Len(pending') :
           returned[Len(returned) - Len(pending') + k] = <<role, pending'[k].ref>>
    <3> TAKE k \in 1 .. Len(pending')
    <3>1. k + 1 \in 1 .. Len(pending)
      BY <1>2
    <3>2. Len(returned) - Len(pending') + k = Len(returned) - Len(pending) + (k + 1)
      BY <1>2, <3>1
    <3> QED
      BY <1>1, <1>2, <3>1, <3>2 DEF PendingNamed
  <2>2. Len(pending') <= Len(returned')
    BY <1>1, <1>2 DEF PendingNamed
  <2>3. stage' = "answering" /\ role' = role /\ returned' = returned
    BY <1>1
  <2> HIDE DEF n, Typed
  <2> QED
    BY <2>1, <2>2, <2>3 DEF PendingNamed
<1>6. Handled' = Handled \cup {Head(pending).ref}
  <2>1. Handled' = {returned[k][2] : k \in 1 .. n}
    BY <1>1, <1>2 DEF Handled
  <2>2. Handled = {returned[k][2] : k \in 1 .. (n - 1)}
    BY <1>2 DEF Handled
  <2>3. 1 .. n = (1 .. (n - 1)) \cup {n}
    BY <1>3
  <2>4. returned[n][2] = Head(pending).ref
    BY <1>4
  <2> HIDE DEF n
  <2> QED
    BY <2>1, <2>2, <2>3, <2>4
<1>7. \A r \in Handled : \E k \in DOMAIN returned : k # n /\ returned[k][2] = r
  <2>1. DOMAIN returned = 1 .. Len(returned)
    OBVIOUS
  <2>2. \A k \in 1 .. (Len(returned) - Len(pending)) : k \in 1 .. Len(returned) /\ k # n
    BY <1>2, <1>3
  <2> QED
    BY <2>1, <2>2 DEF Handled
<1>8. n \in DOMAIN returned
  BY <1>3
<1> QED
  BY <1>4, <1>5, <1>6, <1>7, <1>8

LEMMA TakingKeeps ==
    ASSUME Typed, LoopInv, TakeRewrite
    PROVE  LoopInv'
<1> USE DEF Typed
<1> DEFINE w == Head(pending)
<1>1. /\ stage = "answering" /\ stage' = "answering"
      /\ UNCHANGED <<candidates, role, returned>>
  BY DEF TakeRewrite
<1>2. PICK n \in DOMAIN returned :
        /\ returned[n] = <<role, w.ref>>
        /\ \A r \in Handled : \E k \in DOMAIN returned : k # n /\ returned[k][2] = r
  BY TakingAdvances DEF LoopInv
<1>3. Handled' = Handled \cup {w.ref} /\ PendingNamed'
  BY TakingAdvances DEF LoopInv
<1>4. ReturnedRefs' = ReturnedRefs /\ AnswersInOrder' = AnswersInOrder
  BY <1>1 DEF ReturnedRefs, AnswersInOrder
<1>5. AnswersInOrder => w.ref[1] = role /\ w.ref \notin Handled
  BY <1>2 DEF AnswersInOrder
<1>6. \/ UNCHANGED bullets /\ \E why : discarded' = discarded \cup {<<w.ref, why>>}
      \/ UNCHANGED bullets /\ UNCHANGED discarded
      \/ /\ bullets' = [bullets EXCEPT ![w.ref] = w.rewritten]
         /\ w.ref \in Refs
         /\ UNCHANGED discarded
  BY DEF TakeRewrite, DiscardUnknown, DiscardInvalid, KeepUnchanged, ApplyRewrite, Discard
<1>7. /\ DiscardedRefs \subseteq DiscardedRefs'
      /\ DiscardedRefs' \subseteq DiscardedRefs \cup {w.ref}
      /\ ChangedRefs' \subseteq ChangedRefs \cup {w.ref}
      /\ DiscardedRefs' = DiscardedRefs \/ ChangedRefs' = ChangedRefs
  <2>1. UNCHANGED discarded => DiscardedRefs' = DiscardedRefs
    BY DEF DiscardedRefs
  <2>2. UNCHANGED bullets => ChangedRefs' = ChangedRefs
    BY DEF ChangedRefs, OriginalAt
  <2>3. (\E why : discarded' = discarded \cup {<<w.ref, why>>})
          => /\ DiscardedRefs \subseteq DiscardedRefs'
             /\ DiscardedRefs' \subseteq DiscardedRefs \cup {w.ref}
    <3> SUFFICES ASSUME NEW why, discarded' = discarded \cup {<<w.ref, why>>}
                 PROVE  DiscardedRefs' = DiscardedRefs \cup {w.ref}
      OBVIOUS
    <3>1. <<w.ref, why>>[1] = w.ref
      OBVIOUS
    <3> QED
      BY <3>1 DEF DiscardedRefs
  <2>4. bullets' = [bullets EXCEPT ![w.ref] = w.rewritten]
          => ChangedRefs' \subseteq ChangedRefs \cup {w.ref}
    BY DEF ChangedRefs, OriginalAt
  <2> QED
    BY <1>6, <2>1, <2>2, <2>3, <2>4
<1>8. Accounted'
  BY <1>1, <1>4, <1>7 DEF LoopInv, Accounted
<1>9. Kept'
  <2> SUFFICES ASSUME AnswersInOrder PROVE Kept'
    BY <1>4 DEF Kept
  <2>1. /\ ChangedRefs \subseteq Handled
        /\ DiscardedRefs \cap ChangedRefs = {}
        /\ \A d \in DiscardedRefs : d \in Handled \/ d[1] < role
    BY <1>1 DEF LoopInv, Kept
  <2>2. w.ref \notin ChangedRefs
    BY <1>5, <2>1
  <2>3. w.ref \notin DiscardedRefs
    <3>1. w.ref[1] = role /\ role \in Nat
      BY <1>1, <1>5, RolesAreItems
    <3> QED
      BY <1>5, <2>1, <3>1
  <2>4. ChangedRefs' \subseteq Handled' /\ DiscardedRefs' \cap ChangedRefs' = {}
    BY <1>3, <1>7, <2>1, <2>2, <2>3
  <2>5. \A d \in DiscardedRefs' : d \in Handled' \/ d[1] < role'
    BY <1>1, <1>3, <1>7, <2>1
  <2> QED
    BY <1>1, <2>4, <2>5 DEF Kept
<1> QED
  BY <1>1, <1>3, <1>8, <1>9 DEF LoopInv, Fresh

LEMMA OmittingKeeps ==
    ASSUME Typed, LoopInv, OmitMissing
    PROVE  LoopInv'
<1> USE DEF Typed
<1>1. /\ stage = "answering" /\ pending = << >>
      /\ discarded' = discarded \cup {<<r, "omitted">> : r \in Missing}
      /\ GoOnAfter(candidates, role)
      /\ UNCHANGED <<candidates, pending, returned, bullets>>
  BY DEF OmitMissing
<1>2. role \in Nat
  BY <1>1, RolesAreItems
<1>3. /\ stage' \in {"asking", "finishing"}
      /\ stage' = "asking" => role' \in Nat /\ role' > role
      /\ \A c \in candidates : c[1] <= role \/ (stage' = "asking" /\ c[1] >= role')
  BY <1>1, <1>2, GoOnReaches
<1>4. DiscardedRefs' = DiscardedRefs \cup Missing
  <2>1. \A d \in discarded' : d \in discarded \/ (\E r \in Missing : d = <<r, "omitted">>)
    BY <1>1
  <2>2. \A r \in Missing : <<r, "omitted">> \in discarded'
    BY <1>1
  <2>3. discarded \subseteq discarded'
    BY <1>1
  <2>4. DiscardedRefs' = {d[1] : d \in discarded'}
    BY DEF DiscardedRefs
  <2>5. DiscardedRefs \cup Missing \subseteq DiscardedRefs'
    <3>1. \A r \in Missing : <<r, "omitted">>[1] = r
      OBVIOUS
    <3> QED
      BY <2>2, <2>3, <2>4, <3>1 DEF DiscardedRefs
  <2>6. DiscardedRefs' \subseteq DiscardedRefs \cup Missing
    BY <2>1, <2>4 DEF DiscardedRefs
  <2> QED
    BY <2>5, <2>6
<1>5. /\ ReturnedRefs' = ReturnedRefs
      /\ ChangedRefs' = ChangedRefs
      /\ AnswersInOrder' = AnswersInOrder
      /\ Handled' = Handled
  BY <1>1 DEF ReturnedRefs, ChangedRefs, AnswersInOrder, OriginalAt, Handled
<1>6. PendingNamed'
  BY <1>1, <1>3 DEF LoopInv, PendingNamed
<1>7. Accounted'
  <2> SUFFICES ASSUME NEW c \in candidates, c[1] <= role
               PROVE  c \in DiscardedRefs' \cup ReturnedRefs'
    BY <1>1, <1>3 DEF Accounted
  <2>1. c[1] \in Nat
    BY RefsAreRoleRefs
  <2>2. CASE c[1] < role
    BY <1>1, <1>2, <1>4, <1>5, <2>1, <2>2 DEF LoopInv, Accounted
  <2>3. CASE c[1] = role
    BY <1>4, <1>5, <2>3 DEF Missing, ReturnedRefs
  <2> QED
    BY <1>2, <2>1, <2>2, <2>3
<1>8. Kept'
  <2> SUFFICES ASSUME AnswersInOrder PROVE Kept'
    BY <1>5 DEF Kept
  <2>1. /\ ChangedRefs \subseteq Handled
        /\ DiscardedRefs \cap ChangedRefs = {}
        /\ \A d \in DiscardedRefs : d \in Handled \/ d[1] < role
    BY <1>1 DEF LoopInv, Kept
  <2>2. Missing \cap Handled = {}
    <3>1. Len(returned) - Len(pending) = Len(returned) /\ DOMAIN returned = 1 .. Len(returned)
      BY <1>1
    <3>2. \A r \in Handled : \E k \in DOMAIN returned : returned[k][2] = r
      BY <3>1 DEF Handled
    <3>3. \A k \in DOMAIN returned : returned[k][1] = returned[k][2][1]
      BY DEF AnswersInOrder
    <3> QED
      BY <3>2, <3>3 DEF Missing
  <2>3. \A d \in Missing : d[1] = role
    BY DEF Missing
  <2>4. \A d \in DiscardedRefs : d[1] \in Int
    BY DEF DiscardedRefs
  <2>5. \A d \in DiscardedRefs' : \/ d \in Handled'
                                  \/ stage' = "finishing"
                                  \/ stage' = "asking" /\ d[1] < role'
    BY <1>2, <1>3, <1>4, <1>5, <2>1, <2>3, <2>4
  <2> QED
    BY <1>4, <1>5, <2>1, <2>2, <2>5 DEF Kept
<1> QED
  BY <1>3, <1>6, <1>7, <1>8 DEF LoopInv, Fresh

LEMMA LoopInvariant == Spec => []LoopInv
<1>1. Init => LoopInv
  BY DEF Init, LoopInv, PendingNamed, Fresh, Accounted, Kept, ChangedRefs, DiscardedRefs, OriginalAt
<1>2. Typed /\ LoopInv /\ [Next]_vars => LoopInv'
  <2> SUFFICES ASSUME Typed, LoopInv, [Next]_vars PROVE LoopInv'
    OBVIOUS
  <2>1. CASE UNCHANGED <<candidates, role, pending, returned, bullets, discarded>>
              /\ (stage' = stage \/ (stage' = "failed" /\ stage = "asking")
                  \/ (stage' = "done" /\ stage = "finishing"))
    <3>1. PendingNamed'
      BY <2>1 DEF LoopInv, PendingNamed
    <3>2. Accounted'
      BY <2>1 DEF LoopInv, Accounted, DiscardedRefs, ReturnedRefs
    <3>3. Kept'
      BY <2>1 DEF LoopInv, Kept, AnswersInOrder, ChangedRefs, DiscardedRefs, OriginalAt, Handled
    <3>4. Fresh'
      BY <2>1 DEF LoopInv, Fresh, OriginalAt
    <3> QED
      BY <3>1, <3>2, <3>3, <3>4 DEF LoopInv
  <2>2. CASE ModelFails
    BY <2>1, <2>2 DEF ModelFails
  <2>3. ASSUME NEW first \in Renderings, NEW second \in Renderings, Finish(first, second)
        PROVE  LoopInv'
    BY <2>1, <2>3 DEF Finish
  <2>4. CASE UNCHANGED vars
    BY <2>1, <2>4 DEF vars
  <2> QED
    BY <2>2, <2>3, <2>4, ScoringKeeps, AnswerKeeps, TakingKeeps, OmittingKeeps DEF Next
<1> QED
  BY <1>1, <1>2, TypedInv, PTL DEF Spec

-----------------------------------------------------------------------------
(* What the diff of a tailored resume is: its rewritten bullets, and the   *)
(* skills if they moved.                                                   *)
Place(r) == <<"experience", r[1], "bullets", r[2]>>
PlacesOf(refs) == {Place(r) : r \in refs}
Rewritten(text) == {r \in Refs : text[r] # OriginalAt(r)}

LEMMA TailoredFields ==
    ASSUME NEW text, NEW groups
    PROVE  LET t == Tailored(text, groups)
           IN  /\ \A f \in {"contact", "summary", "education", "projects"} : t[f] = Profile[f]
               /\ t.skills = groups
               /\ DOMAIN t.experience = Roles
               /\ \A i \in Roles :
                    /\ \A f \in ExperienceFields : t.experience[i][f] = Profile.experience[i][f]
                    /\ DOMAIN t.experience[i].bullets = DOMAIN Profile.experience[i].bullets
                    /\ \A j \in DOMAIN Profile.experience[i].bullets :
                         t.experience[i].bullets[j] = text[<<i, j>>]
<1> DEFINE part(i) == [Profile.experience[i] EXCEPT
                !.bullets = [j \in DOMAIN Profile.experience[i].bullets |-> text[<<i, j>>]]]
           t == Tailored(text, groups)
<1>1. Profile = [contact |-> Profile.contact, summary |-> Profile.summary,
                 experience |-> Profile.experience, education |-> Profile.education,
                 skills |-> Profile.skills, projects |-> Profile.projects]
  BY TailoringAssumption DEF Resume
<1>2. /\ \A f \in {"contact", "summary", "education", "projects"} : t[f] = Profile[f]
      /\ t.skills = groups
      /\ t.experience = [i \in Roles |-> part(i)]
  <2> HIDE DEF part
  <2>1. t = [Profile EXCEPT !.experience = [i \in Roles |-> part(i)], !.skills = groups]
    BY DEF Tailored, part
  <2> HIDE DEF t
  <2> QED
    BY <1>1, <2>1
<1>3. ASSUME NEW i \in Roles
      PROVE  /\ \A f \in ExperienceFields : part(i)[f] = Profile.experience[i][f]
             /\ part(i).bullets = [j \in DOMAIN Profile.experience[i].bullets |-> text[<<i, j>>]]
  <2>1. Profile.experience[i] \in Experience
    BY RolesAreItems
  <2> QED
    BY <2>1 DEF Experience, ExperienceFields
<1>4. DOMAIN t.experience = Roles /\ \A i \in Roles : t.experience[i] = part(i)
  <2> HIDE DEF part, t
  <2> QED
    BY <1>2
<1> HIDE DEF part, t
<1>5. ASSUME NEW i \in Roles
      PROVE  /\ \A f \in ExperienceFields : t.experience[i][f] = Profile.experience[i][f]
             /\ DOMAIN t.experience[i].bullets = DOMAIN Profile.experience[i].bullets
             /\ \A j \in DOMAIN Profile.experience[i].bullets :
                  t.experience[i].bullets[j] = text[<<i, j>>]
  <2>1. t.experience[i] = part(i)
    BY <1>4
  <2>2. /\ DOMAIN part(i).bullets = DOMAIN Profile.experience[i].bullets
        /\ \A j \in DOMAIN Profile.experience[i].bullets : part(i).bullets[j] = text[<<i, j>>]
    BY <1>3
  <2> QED
    BY <1>3, <2>1, <2>2
<1> QED
  BY <1>2, <1>4, <1>5 DEF t

LEMMA ExperienceDiff ==
    ASSUME NEW text, NEW groups
    PROVE  ChangedItems("experience", ExperienceFields, Profile.experience,
                        Tailored(text, groups).experience) = PlacesOf(Rewritten(text))
<1> DEFINE before == Profile.experience
           after  == Tailored(text, groups).experience
<1>1. /\ DOMAIN before = Roles /\ DOMAIN after = Roles
      /\ \A i \in Roles :
           /\ \A f \in ExperienceFields : after[i][f] = before[i][f]
           /\ DOMAIN after[i].bullets = DOMAIN before[i].bullets
           /\ \A j \in DOMAIN before[i].bullets : after[i].bullets[j] = text[<<i, j>>]
  BY TailoredFields DEF Roles
<1>2. \A i \in Roles : ChangedAt(before[i].bullets, after[i].bullets)
                         = {j \in DOMAIN before[i].bullets : text[<<i, j>>] # before[i].bullets[j]}
  <2> HIDE DEF before, after
  <2> QED
    BY <1>1 DEF ChangedAt
<1>3. \A i \in Roles : \A j \in DOMAIN before[i].bullets :
         text[<<i, j>>] # before[i].bullets[j] => <<i, j>> \in Rewritten(text)
  BY DEF Rewritten, Refs, OriginalAt
<1>4. \A r \in Rewritten(text) :
         /\ r[1] \in Roles /\ r[2] \in DOMAIN before[r[1]].bullets
         /\ text[<<r[1], r[2]>>] # before[r[1]].bullets[r[2]]
  <2> TAKE r \in Rewritten(text)
  <2>1. r \in Refs /\ text[r] # OriginalAt(r)
    BY DEF Rewritten
  <2> QED
    BY <2>1, RefsAreRoleRefs DEF OriginalAt
<1> HIDE DEF before, after
<1>5. ChangedItems("experience", ExperienceFields, before, after)
        = UNION {{<<"experience", i, "bullets", j>> :
                    j \in ChangedAt(before[i].bullets, after[i].bullets)} : i \in Roles}
  <2>1. (DOMAIN before \cup DOMAIN after) \ (DOMAIN before \cap DOMAIN after) = {}
    BY <1>1
  <2>2. DOMAIN before \cap DOMAIN after = Roles
    BY <1>1
  <2>3. \A i \in Roles : {f \in ExperienceFields : before[i][f] # after[i][f]} = {}
    BY <1>1
  <2>4. {<<"experience", i>> : i \in {}} = {}
    OBVIOUS
  <2>5. UNION {{<<"experience", i, f>> :
                  f \in {g \in ExperienceFields : before[i][g] # after[i][g]}} : i \in Roles} = {}
    BY <2>3
  <2> QED
    BY <2>1, <2>2, <2>4, <2>5 DEF ChangedItems
<1>6. UNION {{<<"experience", i, "bullets", j>> :
                j \in ChangedAt(before[i].bullets, after[i].bullets)} : i \in Roles}
        \subseteq PlacesOf(Rewritten(text))
  <2> SUFFICES ASSUME NEW i \in Roles,
                      NEW j \in ChangedAt(before[i].bullets, after[i].bullets)
               PROVE  <<"experience", i, "bullets", j>> \in PlacesOf(Rewritten(text))
    OBVIOUS
  <2>1. <<i, j>> \in Rewritten(text)
    BY <1>2, <1>3
  <2>2. Place(<<i, j>>) = <<"experience", i, "bullets", j>>
    BY DEF Place
  <2> QED
    BY <2>1, <2>2 DEF PlacesOf
<1>7. PlacesOf(Rewritten(text))
        \subseteq UNION {{<<"experience", i, "bullets", j>> :
                            j \in ChangedAt(before[i].bullets, after[i].bullets)} : i \in Roles}
  <2> SUFFICES ASSUME NEW r \in Rewritten(text)
               PROVE  \E i \in Roles : \E j \in ChangedAt(before[i].bullets, after[i].bullets) :
                         Place(r) = <<"experience", i, "bullets", j>>
    BY DEF PlacesOf
  <2>1. r[1] \in Roles /\ r[2] \in ChangedAt(before[r[1]].bullets, after[r[1]].bullets)
    BY <1>2, <1>4
  <2> QED
    BY <2>1 DEF Place
<1> QED
  BY <1>5, <1>6, <1>7 DEF before, after

LEMMA SameItems ==
    ASSUME NEW section, NEW fields, NEW items
    PROVE  ChangedItems(section, fields, items, items) = {}
  BY DEF ChangedItems, ChangedAt

LEMMA TailoredDiff ==
    ASSUME NEW text, NEW groups
    PROVE  Diff(Profile, Tailored(text, groups))
             = PlacesOf(Rewritten(text)) \cup {c \in {<<"skills">>} : groups # Profile.skills}
<1> DEFINE t == Tailored(text, groups)
           places == PlacesOf(Rewritten(text))
<1>1. /\ t.contact = Profile.contact /\ t.summary = Profile.summary
      /\ t.education = Profile.education /\ t.projects = Profile.projects
      /\ t.skills = groups
  BY TailoredFields
<1>2. ChangedItems("experience", ExperienceFields, Profile.experience, t.experience) = places
  BY ExperienceDiff
<1>3. ChangedItems("projects", ProjectFields, Profile.projects, t.projects) = {}
  BY <1>1, SameItems
<1>4. {<<f>> : f \in {g \in {"summary", "contact", "education", "skills"} : Profile[g] # t[g]}}
        = {c \in {<<"skills">>} : groups # Profile.skills}
  <2> HIDE DEF t
  <2>1. {g \in {"summary", "contact", "education", "skills"} : Profile[g] # t[g]}
          = {g \in {"skills"} : groups # Profile.skills}
    BY <1>1
  <2> QED
    BY <2>1
<1> HIDE DEF t, places
<1> QED
  BY <1>2, <1>3, <1>4 DEF Diff, t, places

-----------------------------------------------------------------------------
(* Counting bullets. *)

LEMMA IntervalsAreFinite == \A n \in Nat : IsFiniteSet(1 .. n)
  BY FS_Interval

LEMMA SequencesHaveFiniteDomains ==
    ASSUME NEW S, NEW s \in Seq(S)
    PROVE  IsFiniteSet(DOMAIN s)
<1>1. DOMAIN s = 1 .. Len(s) /\ Len(s) \in Nat
  OBVIOUS
<1> QED
  BY <1>1, IntervalsAreFinite

(* The image of a finite set is finite, and as large if no two elements    *)
(* share a value.                                                          *)
LEMMA ImagesAreFinite ==
    ASSUME NEW S, IsFiniteSet(S), NEW f, DOMAIN f = S, f = [x \in S |-> f[x]]
    PROVE  IsFiniteSet({f[x] : x \in S})
<1>1. f \in Surjection(S, {f[x] : x \in S})
  BY DEF Surjection
<1> QED
  BY <1>1, FS_Surjection

LEMMA InjectiveImages ==
    ASSUME NEW S, IsFiniteSet(S), NEW f, DOMAIN f = S, f = [x \in S |-> f[x]],
           \A x, y \in S : f[x] = f[y] => x = y
    PROVE  /\ IsFiniteSet({f[x] : x \in S})
           /\ Cardinality({f[x] : x \in S}) = Cardinality(S)
<1>1. f \in Bijection(S, {f[x] : x \in S})
  BY DEF Bijection, Injection, Surjection, IsInjective
<1> QED
  BY <1>1, FS_Bijection DEF ExistsBijection

LEMMA RefsAreFinite == IsFiniteSet(Refs)
<1> DEFINE of == [i \in Roles |-> {<<i, j>> : j \in DOMAIN Profile.experience[i].bullets}]
<1>1. IsFiniteSet(Roles)
  <2>1. Profile.experience \in Seq(Experience)
    BY TailoringAssumption DEF Resume
  <2> QED
    BY <2>1, SequencesHaveFiniteDomains DEF Roles
<1>2. ASSUME NEW i \in Roles PROVE IsFiniteSet(of[i])
  <2> DEFINE D == DOMAIN Profile.experience[i].bullets
             f == [j \in D |-> <<i, j>>]
  <2>1. Profile.experience[i].bullets \in Seq(Texts)
    BY RolesAreItems DEF Experience
  <2>2. IsFiniteSet(D)
    BY <2>1, SequencesHaveFiniteDomains
  <2>3. IsFiniteSet({f[j] : j \in D})
    <3> HIDE DEF D
    <3> QED
      BY <2>2, ImagesAreFinite
  <2>4. of[i] = {f[j] : j \in D}
    OBVIOUS
  <2> QED
    BY <2>3, <2>4
<1>3. IsFiniteSet({of[i] : i \in Roles})
  <2> HIDE DEF Roles
  <2> QED
    BY <1>1, ImagesAreFinite
<1>4. Refs = UNION {of[i] : i \in Roles}
  BY DEF Refs
<1> HIDE DEF of
<1> QED
  BY <1>2, <1>3, <1>4, FS_UNION

LEMMA PlacesCounted ==
    ASSUME NEW refs, refs \subseteq Refs
    PROVE  /\ IsFiniteSet(PlacesOf(refs))
           /\ Cardinality(PlacesOf(refs)) = Cardinality(refs)
<1> DEFINE f == [r \in refs |-> Place(r)]
<1>1. IsFiniteSet(refs)
  BY RefsAreFinite, FS_Subset
<1>2. \A r, s \in refs : f[r] = f[s] => r = s
  <2>1. \A r \in refs : r = <<r[1], r[2]>>
    BY RefsAreRoleRefs
  <2> QED
    BY <2>1 DEF Place
<1>3. PlacesOf(refs) = {f[r] : r \in refs}
  BY DEF PlacesOf
<1>4. DOMAIN f = refs /\ f = [r \in refs |-> f[r]]
  OBVIOUS
<1> HIDE DEF f
<1> QED
  BY <1>1, <1>2, <1>3, <1>4, InjectiveImages

LEMMA BulletRefsAreFinite ==
    ASSUME NEW resume \in Resume
    PROVE  IsFiniteSet(BulletRefs(resume))
<1> DEFINE Sections == {"experience", "projects"}
           at(section, i) == {<<section, i, j>> : j \in DOMAIN resume[section][i].bullets}
           in(section) == UNION {at(section, i) : i \in DOMAIN resume[section]}
<1>1. ASSUME NEW section \in Sections PROVE IsFiniteSet(in(section))
  <2>1. PICK Item : /\ resume[section] \in Seq(Item)
                    /\ \A item \in Item : item.bullets \in Seq(Texts)
    <3>1. resume.experience \in Seq(Experience) /\ resume.projects \in Seq(Project)
      BY DEF Resume
    <3>2. \A item \in Experience \cup Project : item.bullets \in Seq(Texts)
      BY DEF Experience, Project
    <3> QED
      BY <3>1, <3>2
  <2> DEFINE items == resume[section]
             D == DOMAIN items
             of == [i \in D |-> at(section, i)]
  <2>2. IsFiniteSet(D)
    BY <2>1, SequencesHaveFiniteDomains
  <2>3. ASSUME NEW i \in D PROVE IsFiniteSet(of[i])
    <3> DEFINE E == DOMAIN items[i].bullets
               f == [j \in E |-> <<section, i, j>>]
    <3>1. items[i] \in Item
      BY <2>1
    <3>2. IsFiniteSet(E)
      BY <2>1, <3>1, SequencesHaveFiniteDomains
    <3>3. IsFiniteSet({f[j] : j \in E})
      <4> HIDE DEF E
      <4> QED
        BY <3>2, ImagesAreFinite
    <3>4. of[i] = {f[j] : j \in E}
      OBVIOUS
    <3> QED
      BY <3>3, <3>4
  <2>4. IsFiniteSet({of[i] : i \in D})
    <3> HIDE DEF D, at
    <3> QED
      BY <2>2, ImagesAreFinite
  <2>5. in(section) = UNION {of[i] : i \in D}
    OBVIOUS
  <2> HIDE DEF of, D
  <2> QED
    BY <2>3, <2>4, <2>5, FS_UNION
<1>2. BulletRefs(resume) = in("experience") \cup in("projects")
  <2>1. BulletRefs(resume) = UNION {in(section) : section \in Sections}
    BY DEF BulletRefs
  <2> HIDE DEF in
  <2> QED
    BY <2>1
<1> HIDE DEF in
<1> QED
  BY <1>1, <1>2, FS_Union

(* A tailored resume has the bullets of the original, and a page's count   *)
(* of them is that of the scores.                                          *)
LEMMA BulletsCounted ==
    ASSUME NEW text, NEW groups
    PROVE  LET total == BulletsIn(Tailored(text, groups))
           IN  /\ IsFiniteSet(total)
               /\ Cardinality(total) = Cardinality(BulletRefs(Profile))
               /\ \A r \in Refs : Place(r) \in total
<1> DEFINE t == Tailored(text, groups)
           Sections == {"experience", "projects"}
           b == BulletRefs(Profile)
           f == [r \in b |-> <<r[1], r[2], "bullets", r[3]>>]
<1>1. \A section \in Sections :
         /\ DOMAIN t[section] = DOMAIN Profile[section]
         /\ \A i \in DOMAIN t[section] :
              DOMAIN t[section][i].bullets = DOMAIN Profile[section][i].bullets
  BY TailoredFields DEF Roles
<1> HIDE DEF t
<1>2. BulletsIn(t) = {f[r] : r \in b}
  <2>1. ASSUME NEW c \in BulletsIn(t) PROVE c \in {f[r] : r \in b}
    <3>1. PICK section \in Sections : \E i \in DOMAIN t[section] :
             \E j \in DOMAIN t[section][i].bullets : c = <<section, i, "bullets", j>>
      BY DEF BulletsIn
    <3>2. PICK i \in DOMAIN t[section] :
             \E j \in DOMAIN t[section][i].bullets : c = <<section, i, "bullets", j>>
      BY <3>1
    <3>3. PICK j \in DOMAIN t[section][i].bullets : c = <<section, i, "bullets", j>>
      BY <3>2
    <3>4. <<section, i, j>> \in b
      BY <1>1 DEF BulletRefs
    <3>5. c = f[<<section, i, j>>]
      <4> HIDE DEF b
      <4> QED
        BY <3>3, <3>4
    <3> HIDE DEF f
    <3> QED
      BY <3>4, <3>5
  <2>2. ASSUME NEW r \in b PROVE f[r] \in BulletsIn(t)
    <3>1. PICK section \in Sections : \E i \in DOMAIN Profile[section] :
             \E j \in DOMAIN Profile[section][i].bullets : r = <<section, i, j>>
      BY DEF BulletRefs
    <3>2. PICK i \in DOMAIN Profile[section] :
             \E j \in DOMAIN Profile[section][i].bullets : r = <<section, i, j>>
      BY <3>1
    <3>3. PICK j \in DOMAIN Profile[section][i].bullets : r = <<section, i, j>>
      BY <3>2
    <3>4. f[r] = <<section, i, "bullets", j>>
      <4> HIDE DEF b
      <4> QED
        BY <3>3
    <3>5. i \in DOMAIN t[section] /\ j \in DOMAIN t[section][i].bullets
      BY <1>1
    <3> HIDE DEF f
    <3> QED
      BY <3>4, <3>5 DEF BulletsIn
  <2> HIDE DEF f, b
  <2> QED
    BY <2>1, <2>2
<1>3. \A r, s \in b : f[r] = f[s] => r = s
  <2>1. \A r \in b : r = <<r[1], r[2], r[3]>>
    BY DEF BulletRefs
  <2> HIDE DEF b
  <2> QED
    BY <2>1
<1>4. IsFiniteSet(b)
  BY BulletRefsAreFinite, TailoringAssumption
<1>5. ASSUME NEW r \in Refs PROVE Place(r) \in BulletsIn(t)
  <2>1. /\ r[1] \in DOMAIN t["experience"]
        /\ r[2] \in DOMAIN t["experience"][r[1]].bullets
    BY <1>1, RefsAreRoleRefs DEF Roles
  <2> QED
    BY <2>1 DEF BulletsIn, Place
<1>6. DOMAIN f = b /\ f = [r \in b |-> f[r]]
  OBVIOUS
<1>7. IsFiniteSet({f[r] : r \in b}) /\ Cardinality({f[r] : r \in b}) = Cardinality(b)
  <2> HIDE DEF f, b
  <2> QED
    BY <1>3, <1>4, <1>6, InjectiveImages
<1> QED
  BY <1>2, <1>5, <1>7 DEF t

-----------------------------------------------------------------------------
(* The skills. *)
LEMMA ProfileSkillsAreGroups == Profile.skills \in Seq(SkillGroup)
  BY TailoringAssumption DEF Resume

LEMMA GroupsStay ==
    ASSUME NEW g \in SkillGroup
    PROVE  /\ MatchedFirst(g) \in SkillGroup
           /\ MatchedFirst(g).category = g.category
           /\ MatchedFirst(g).items = StablePartition(g.items, MatchedSkills)
<1>1. g = [category |-> g.category, items |-> g.items] /\ g.category \in Terms /\ g.items \in Seq(Terms)
  BY DEF SkillGroup
<1> DEFINE p == StablePartition(g.items, MatchedSkills)
<1>2. p \in Seq(Terms)
  BY <1>1, PartitionIsSeq
<1> HIDE DEF p
<1>3. MatchedFirst(g) = [category |-> g.category, items |-> p]
  <2>1. MatchedFirst(g) = [g EXCEPT !.items = p]
    BY DEF MatchedFirst, p
  <2> QED
    BY <1>1, <2>1
<1>4. [category |-> g.category, items |-> p] \in SkillGroup
  BY <1>1, <1>2 DEF SkillGroup
<1> QED
  BY <1>3, <1>4 DEF p

(* Putting a group's matching skills first a second time changes nothing.  *)
LEMMA GroupsSettle ==
    ASSUME NEW g \in SkillGroup
    PROVE  MatchedFirst(MatchedFirst(g)) = MatchedFirst(g)
<1> DEFINE m == MatchedFirst(g)
           p == StablePartition(g.items, MatchedSkills)
<1>1. m \in SkillGroup /\ m.category = g.category /\ m.items = p
  BY GroupsStay
<1>2. g.items \in Seq(Terms)
  BY DEF SkillGroup
<1>3. StablePartition(p, MatchedSkills) = p
  BY <1>2, PartitionTwice
<1> HIDE DEF m, p
<1>4. MatchedFirst(m) \in SkillGroup /\ MatchedFirst(m).category = m.category /\ MatchedFirst(m).items = m.items
  BY <1>1, <1>3, GroupsStay
<1>5. MatchedFirst(m) = m
  BY <1>1, <1>4 DEF SkillGroup
<1> QED
  BY <1>5 DEF m

Groups == [k \in DOMAIN Profile.skills |-> MatchedFirst(Profile.skills[k])]
Matching == {g \in ToSet(Groups) : ToSet(g.items) \cap MatchedSkills # {}}

LEMMA GroupsAreMatched ==
    /\ Groups \in Seq(SkillGroup)
    /\ DOMAIN Groups = DOMAIN Profile.skills
    /\ \A k \in DOMAIN Groups : Groups[k] = MatchedFirst(Profile.skills[k])
<1>1. /\ Profile.skills \in Seq(SkillGroup)
      /\ \A k \in DOMAIN Profile.skills : MatchedFirst(Profile.skills[k]) \in SkillGroup
  BY ProfileSkillsAreGroups, GroupsStay
<1>2. Len(Profile.skills) \in Nat /\ DOMAIN Profile.skills = 1 .. Len(Profile.skills)
  BY <1>1
<1>3. Groups \in [1 .. Len(Profile.skills) -> SkillGroup]
  BY <1>1, <1>2 DEF Groups
<1> QED
  BY <1>2, <1>3, FunctionsAreSequences DEF Groups

LEMMA ReorderedIsPartition == ReorderedSkills = StablePartition(Groups, Matching)
  BY DEF ReorderedSkills, Groups, Matching

LEMMA ReorderedAreGroups ==
    /\ ReorderedSkills \in Seq(SkillGroup)
    /\ ToSet(ReorderedSkills) = ToSet(Groups)
  BY GroupsAreMatched, ReorderedIsPartition, PartitionIsSeq

LEMMA TailoredAreGroups == TailoredSkills \in Seq(SkillGroup)
  BY ReorderedAreGroups, ProfileSkillsAreGroups DEF TailoredSkills

(* Reordered is what the resume's skills differ by, no more and no less.   *)
LEMMA ReorderedIsDifferent == SkillsReordered <=> TailoredSkills # Profile.skills
<1>1. ~ SkillsReordered => TailoredSkills = Profile.skills
  BY DEF TailoredSkills
<1>2. ASSUME SkillsReordered, TailoredSkills = Profile.skills PROVE FALSE
  <2>1. ReorderedSkills = Profile.skills
    BY <1>2 DEF TailoredSkills
  <2>2. \A g \in ToSet(Groups) : MatchedFirst(g) = g
    <3>1. \A k \in DOMAIN Profile.skills : Profile.skills[k] \in SkillGroup
      BY ProfileSkillsAreGroups
    <3>2. \A k \in DOMAIN Groups : MatchedFirst(Groups[k]) = Groups[k]
      BY <3>1, GroupsAreMatched, GroupsSettle
    <3> QED
      BY <3>2 DEF ToSet
  <2>3. \A g \in ToSet(Profile.skills) : MatchedFirst(g) = g
    BY <2>1, <2>2, ReorderedAreGroups
  <2> QED
    BY <1>2, <2>1, <2>3 DEF SkillsReordered
<1> QED
  BY <1>1, <1>2

-----------------------------------------------------------------------------
(* What is stored is the diff of the resume that is stored with it.        *)
Reported ==
    stage = "done" =>
        /\ report.changes = Diff(Profile, Tailored(bullets, skills))
        /\ report.accepted = Cardinality(report.changes \ {<<"skills">>})
        /\ report.reordered = (skills # Profile.skills)

LEMMA StoredAsFound == Spec => []Reported
<1>1. Init => Reported
  BY DEF Init, Reported
<1>2. Typed /\ Reported /\ [Next]_vars => Reported'
  <2> SUFFICES ASSUME Typed, Reported, [Next]_vars PROVE Reported'
    OBVIOUS
  <2>1. ASSUME NEW first \in Renderings, NEW second \in Renderings, Finish(first, second)
        PROVE  Reported'
    <3> DEFINE found == Diff(Profile, Tailored(bullets, TailoredSkills))
    <3>1. bullets' = bullets /\ skills' = TailoredSkills
      BY <2>1 DEF Finish
    <3>2. /\ report'.changes = found
          /\ report'.accepted = Cardinality(found \ {<<"skills">>})
      BY <2>1 DEF Finish
    <3>3. report'.reordered = SkillsReordered
      BY <2>1, Zenon DEF Finish
    <3>4. report'.reordered = (skills' # Profile.skills)
      <4>1. SkillsReordered \in BOOLEAN
        BY DEF SkillsReordered
      <4>2. SkillsReordered = (TailoredSkills # Profile.skills)
        BY <4>1, ReorderedIsDifferent
      <4> QED
        BY <3>1, <3>3, <4>2, Zenon
    <3>5. Diff(Profile, Tailored(bullets', skills')) = found
      BY <3>1
    <3> HIDE DEF found
    <3>6. /\ report'.changes = Diff(Profile, Tailored(bullets', skills'))
          /\ report'.accepted = Cardinality(report'.changes \ {<<"skills">>})
      BY <3>2, <3>5
    <3> QED
      BY <3>4, <3>6, Zenon DEF Reported
  <2>2. CASE UNCHANGED vars
    BY <2>2 DEF vars, Reported, Tailored
  <2>3. ScoreCandidates \/ OmitMissing => stage' # "done"
    BY CandidatesAreRefs, GoOnTyped DEF ScoreCandidates, OmitMissing, Typed
  <2>4. TakeRewrite \/ ModelFails \/ (\E answer \in Answers : Answered(answer)) => stage' # "done"
    BY DEF TakeRewrite, ModelFails, Answered
  <2> QED
    BY <2>1, <2>2, <2>3, <2>4 DEF Next, Reported
<1> QED
  BY <1>1, <1>2, TypedInv, PTL DEF Spec

(* When tailoring is done, its report says what became of every bullet and *)
(* of every candidate, and the version's page adds up.                     *)
THEOREM ReportsAreTrue == Spec => []ReportIsTrue
<1> SUFFICES Typed /\ LoopInv /\ Reported => ReportIsTrue
  BY TypedInv, LoopInvariant, StoredAsFound, PTL
<1> SUFFICES ASSUME Typed, LoopInv, Reported, stage = "done" PROVE ReportIsTrue
  BY DEF ReportIsTrue
<1> DEFINE tailored == Tailored(bullets, skills)
           places   == PlacesOf(ChangedRefs)
           page     == Enriched(tailored, report.changes, report.reordered)
<1>1. report.changes = places \cup {c \in {<<"skills">>} : skills # Profile.skills}
  BY TailoredDiff DEF Reported, Rewritten, ChangedRefs
<1>2. \A c \in places : Len(c) = 4 /\ c[1] = "experience"
  BY DEF PlacesOf, Place
<1>3. Len(<<"skills">>) = 1 /\ <<"skills">>[1] = "skills"
  OBVIOUS
<1>4. <<"skills">> \notin places
  <2> HIDE DEF places
  <2> QED
    BY <1>2, <1>3
<1>5. /\ {c \in report.changes : c # <<"skills">>} = places
      /\ report.changes \ {<<"skills">>} = places
      /\ <<"skills">> \in report.changes <=> skills # Profile.skills
  <2> HIDE DEF places
  <2> QED
    BY <1>1, <1>4
<1>6. {c \in report.changes : IsBulletRef(c)} = places
  <2>1. \A c \in report.changes : IsBulletRef(c) <=> c \in places
    <3> HIDE DEF places
    <3> QED
      BY <1>1, <1>2, <1>3 DEF IsBulletRef
  <2> HIDE DEF places
  <2> QED
    BY <1>5, <2>1
<1>7. Cardinality(places) = Cardinality(ChangedRefs) /\ IsFiniteSet(places)
  BY PlacesCounted DEF ChangedRefs
<1>8. /\ places \subseteq BulletsIn(tailored)
      /\ IsFiniteSet(BulletsIn(tailored))
      /\ Cardinality(BulletsIn(tailored)) = Cardinality(BulletRefs(Profile))
  BY BulletsCounted DEF PlacesOf, ChangedRefs
<1>9. /\ Cardinality(places) \in Nat /\ Cardinality(BulletsIn(tailored)) \in Nat
      /\ Cardinality(places) <= Cardinality(BulletsIn(tailored))
  <2> HIDE DEF places, tailored
  <2> QED
    BY <1>7, <1>8, FS_Subset, FS_CardinalityType
<1>10. /\ page.bullets_rewritten = Cardinality(places)
       /\ page.bullets_rewritten + page.bullets_unchanged = Cardinality(BulletsIn(tailored))
       /\ page.other_changes = {}
       /\ page.skills_reordered = (report.reordered \/ <<"skills">> \in report.changes)
       /\ \A c \in places : c \in page.groups[<<c[1], c[2]>>]
  <2>1. page = [groups |-> [item \in {<<c[1], c[2]>> : c \in places} |->
                              {c \in places : <<c[1], c[2]>> = item}],
                section_reorderings |-> report.changes \cap Reorderings,
                other_changes       |-> report.changes \ (places \cup Reorderings),
                bullets_rewritten   |-> Cardinality(places),
                bullets_unchanged   |-> IF Cardinality(places) > Cardinality(BulletsIn(tailored)) THEN 0
                                        ELSE Cardinality(BulletsIn(tailored)) - Cardinality(places),
                skills_reordered    |-> report.reordered \/ <<"skills">> \in report.changes]
    <3> HIDE DEF places, tailored
    <3> QED
      BY <1>6 DEF Enriched
  <2>2. report.changes \ (places \cup Reorderings) = {}
    <3> HIDE DEF places
    <3> QED
      BY <1>1 DEF Reorderings
  <2> HIDE DEF page, places, tailored
  <2> QED
    BY <1>9, <2>1, <2>2
<1>11. ASSUME NEW r \in ChangedRefs
       PROVE  <<"experience", r[1], "bullets", r[2]>> \in page.groups[<<"experience", r[1]>>]
  <2>1. Place(r) \in places /\ Place(r)[1] = "experience" /\ Place(r)[2] = r[1]
    BY DEF PlacesOf, Place
  <2> HIDE DEF page, places
  <2> QED
    BY <1>10, <2>1 DEF Place
<1>12. places = {<<"experience", r[1], "bullets", r[2]>> : r \in ChangedRefs}
  BY DEF PlacesOf, Place
<1>13. /\ candidates \subseteq DiscardedRefs \cup ReturnedRefs
       /\ AnswersInOrder => DiscardedRefs \cap ChangedRefs = {}
  BY DEF LoopInv, Accounted, Kept
<1>14. /\ report.accepted = Cardinality(places)
       /\ report.reordered = (skills # Profile.skills)
  BY <1>5 DEF Reported
<1> HIDE DEF page, places
<1>15. /\ page.bullets_rewritten = Cardinality(ChangedRefs)
       /\ page.bullets_rewritten + page.bullets_unchanged = Cardinality(BulletRefs(Profile))
       /\ page.other_changes = {}
       /\ page.skills_reordered = (skills # Profile.skills)
  BY <1>5, <1>7, <1>8, <1>10, <1>14
<1> QED
  BY <1>5, <1>7, <1>11, <1>12, <1>13, <1>14, <1>15 DEF ReportIsTrue, page

-----------------------------------------------------------------------------
(* The lexicon that skills are compared with holds the candidate's own, so *)
(* all but those of one character match.                                   *)
LEMMA LongSkillsMatch ==
    ASSUME NEW g \in ToSet(Profile.skills)
    PROVE  ToSet(g.items) \cap Long \subseteq MatchedSkills
<1> SUFFICES ASSUME NEW t \in ToSet(g.items), t \in Long PROVE t \in MatchedSkills
  OBVIOUS
<1>1. t \in Terms /\ t \in PartsOf[t]
  BY ClaimsAssumption
<1>2. t \in SkillsOf(Profile)
  BY DEF SkillsOf, Elements, ToSet
<1>3. t \in TechLexicon(Requirements, Profile)
  BY <1>1, <1>2 DEF TechLexicon, Split
<1>4. SkillMatches(t)
  BY <1>3 DEF SkillMatches
<1> QED
  BY <1>1, <1>4 DEF MatchedSkills

(* What a group lists stays when its matching skills come first.           *)
LEMMA ListedStays ==
    ASSUME NEW g \in ToSet(Profile.skills)
    PROVE  Listed(MatchedFirst(g)) = Listed(g)
<1>1. g \in SkillGroup
  BY ProfileSkillsAreGroups DEF ToSet
<1>2. g.items \in Seq(Terms)
  BY <1>1 DEF SkillGroup
<1> DEFINE s == g.items
           p == StablePartition(s, MatchedSkills)
           same == [t \in Terms |-> t]
<1>3. MatchedFirst(g).category = g.category /\ MatchedFirst(g).items = p
  BY <1>1, GroupsStay
<1>4. Only(p, Long) = Only(s, Long)
  BY <1>2, LongSkillsMatch, PartitionKeepsOrder
<1>5. p \in Seq(Terms)
  BY <1>2, PartitionIsSeq
<1>6. ToBag([k \in DOMAIN p |-> same[p[k]]]) = ToBag([k \in DOMAIN s |-> same[s[k]]])
  BY <1>2, PartitionSameBag
<1>7. \A q \in Seq(Terms) : [k \in DOMAIN q |-> same[q[k]]] = q
  <2> TAKE q \in Seq(Terms)
  <2>1. \A k \in DOMAIN q : same[q[k]] = q[k]
    OBVIOUS
  <2>2. q = [k \in DOMAIN q |-> q[k]]
    OBVIOUS
  <2> HIDE DEF same
  <2> QED
    BY <2>1, <2>2
<1>8. ToBag(p) = ToBag(s)
  <2> HIDE DEF same
  <2>1. p = [k \in DOMAIN p |-> same[p[k]]] /\ s = [k \in DOMAIN s |-> same[s[k]]]
    BY <1>2, <1>5, <1>7
  <2> QED
    BY <1>6, <2>1
<1> QED
  BY <1>3, <1>4, <1>8 DEF Listed

(* No group or skill is lost, added or repeated.                           *)
LEMMA TailoredSkillsMoved ==
    ToBag([k \in DOMAIN TailoredSkills |-> Listed(TailoredSkills[k])])
        = ToBag([k \in DOMAIN Profile.skills |-> Listed(Profile.skills[k])])
<1> DEFINE Lists(s) == [k \in DOMAIN s |-> Listed(s[k])]
           of == [g \in SkillGroup |-> Listed(g)]
<1>1. CASE ~ SkillsReordered
  BY <1>1 DEF TailoredSkills
<1>2. CASE SkillsReordered
  <2>1. TailoredSkills = StablePartition(Groups, Matching)
    BY <1>2, ReorderedIsPartition DEF TailoredSkills
  <2>2. Groups \in Seq(SkillGroup) /\ TailoredSkills \in Seq(SkillGroup)
    BY GroupsAreMatched, TailoredAreGroups
  <2>3. ToBag([k \in DOMAIN TailoredSkills |-> of[TailoredSkills[k]]])
          = ToBag([k \in DOMAIN Groups |-> of[Groups[k]]])
    <3> HIDE DEF of
    <3> QED
      BY <2>1, <2>2, PartitionSameBag
  <2>4. \A s \in Seq(SkillGroup) : [k \in DOMAIN s |-> of[s[k]]] = Lists(s)
    <3> TAKE s \in Seq(SkillGroup)
    <3>1. \A k \in DOMAIN s : of[s[k]] = Listed(s[k])
      OBVIOUS
    <3> HIDE DEF of
    <3> QED
      BY <3>1
  <2>5. Lists(Groups) = Lists(Profile.skills)
    <3>1. \A k \in DOMAIN Groups : Listed(Groups[k]) = Listed(Profile.skills[k])
      BY GroupsAreMatched, ListedStays DEF ToSet
    <3> QED
      BY <3>1, GroupsAreMatched
  <2> HIDE DEF of
  <2> QED
    BY <2>2, <2>3, <2>4, <2>5
<1> QED
  BY <1>1, <1>2

(* The skills are those of the profile until tailoring finishes.           *)
SkillsKept == skills \in {Profile.skills, TailoredSkills}

LEMMA SkillsKeptInv == Spec => []SkillsKept
<1>1. Init => SkillsKept
  BY DEF Init, SkillsKept
<1>2. SkillsKept /\ [Next]_vars => SkillsKept'
  <2>1. [Next]_vars => skills' \in {skills, TailoredSkills}
    BY DEF Next, vars, ScoreCandidates, Answered, ModelFails, TakeRewrite, DiscardUnknown,
           DiscardInvalid, KeepUnchanged, ApplyRewrite, OmitMissing, Finish
  <2> QED
    BY <2>1 DEF SkillsKept
<1> QED
  BY <1>1, <1>2, PTL DEF Spec

(* _reorder_skills only moves: every group of the tailored resume lists    *)
(* what one of the profile listed, its longer skills in the same order.    *)
THEOREM SkillsAreMoved == Spec => []SkillsOnlyMove
<1>1. SkillsKept => SkillsOnlyMove
  BY TailoredSkillsMoved DEF SkillsKept, SkillsOnlyMove
<1> QED
  BY <1>1, SkillsKeptInv, PTL

(* Every variable has its type, whatever the model answers.                *)
THEOREM TailoringIsTyped == Spec => []TypeOK
<1>1. Typed /\ SkillsKept => TypeOK
  BY ProfileSkillsAreGroups, TailoredAreGroups DEF Typed, SkillsKept, TypeOK
<1> QED
  BY <1>1, TypedInv, SkillsKeptInv, PTL

-----------------------------------------------------------------------------
(* The scores. *)
LEMMA RoundBounded ==
    ASSUME NEW a \in Nat, NEW b \in Nat, b # 0, NEW k \in Nat, a <= k * b
    PROVE  Round(a, b) \in 0 .. k
<1> DEFINE x == 2 * a + b
           y == 2 * b
           q == x \div y
<1>1. x \in Nat /\ y \in Nat /\ y # 0
  OBVIOUS
<1>2. q \in Nat /\ q * y <= x
  <2> HIDE DEF x, y
  <2> QED
    BY <1>1
<1>3. q <= k
  <2> SUFFICES ASSUME k + 1 <= q PROVE FALSE
    BY <1>2
  <2>1. (k + 1) * y <= q * y
    <3> HIDE DEF x, y, q
    <3> QED
      BY <1>1, <1>2
  <2>2. (k + 1) * y = 2 * (k * b) + 2 * b
    OBVIOUS
  <2>3. x <= 2 * (k * b) + b
    OBVIOUS
  <2> DEFINE m == k * b
  <2>4. m \in Nat
    OBVIOUS
  <2> HIDE DEF q, m
  <2> QED
    BY <1>2, <2>1, <2>2, <2>3, <2>4
<1> HIDE DEF q
<1> QED
  BY <1>2, <1>3 DEF Round, q

(* The terms of a job are finitely many and weigh at most a hundred.       *)
LEMMA TargetsWeigh ==
    ASSUME NEW r \in JobRequirements, IsFiniteSet(r.hard_skills), IsFiniteSet(r.must_haves)
    PROVE  LET targets == RequirementTargets(r)
           IN  IsFiniteSet(DOMAIN targets) /\ \A t \in DOMAIN targets : targets[t] \in 0 .. 100
<1> DEFINE hard == r.hard_skills
           must == {m.phrase : m \in r.must_haves}
           terms == {h.term : h \in hard} \cup must
           weights(t) == {h.weight : h \in {g \in hard : g.term = t}}
                         \cup (IF t \in must THEN {100} ELSE {})
<1>1. RequirementTargets(r) = [t \in terms |-> Max(weights(t))]
  BY DEF RequirementTargets
<1>2. IsFiniteSet(terms)
  <2> DEFINE f == [h \in hard |-> h.term]
             g == [m \in r.must_haves |-> m.phrase]
  <2>0. /\ DOMAIN f = hard /\ f = [h \in hard |-> f[h]]
        /\ DOMAIN g = r.must_haves /\ g = [m \in r.must_haves |-> g[m]]
    OBVIOUS
  <2>1. IsFiniteSet({f[h] : h \in hard}) /\ IsFiniteSet({g[m] : m \in r.must_haves})
    <3>1. IsFiniteSet(hard)
      OBVIOUS
    <3> HIDE DEF f, g, hard
    <3> QED
      BY <2>0, <3>1, ImagesAreFinite
  <2>2. {f[h] : h \in hard} = {h.term : h \in hard} /\ {g[m] : m \in r.must_haves} = must
    OBVIOUS
  <2> HIDE DEF f, g, must
  <2> QED
    BY <2>1, <2>2, FS_Union
<1>3. ASSUME NEW t \in terms PROVE Max(weights(t)) \in 0 .. 100
  <2>1. \A h \in hard : h.weight \in 0 .. 100
    BY DEF JobRequirements
  <2>2. weights(t) \in SUBSET (0 .. 100)
    BY <2>1
  <2>3. weights(t) # {}
    OBVIOUS
  <2> HIDE DEF weights
  <2>4. weights(t) \in SUBSET Nat /\ \A x \in weights(t) : x <= 100
    BY <2>2
  <2>5. Max(weights(t)) \in weights(t)
    BY <2>3, <2>4, GreatestNatural
  <2> QED
    BY <2>2, <2>5
<1> HIDE DEF terms, weights
<1> QED
  BY <1>1, <1>2, <1>3

LEMMA CoverageInRange ==
    ASSUME NEW resume, NEW r \in JobRequirements,
           IsFiniteSet(r.hard_skills), IsFiniteSet(r.must_haves)
    PROVE  KeywordCoverage(resume, r) \in 0 .. Full
<1> DEFINE targets == RequirementTargets(r)
           all == DOMAIN targets
           covered == Covered(targets, resume)
           total == WeightOf(targets, all)
           part == WeightOf(targets, covered)
<1>1. IsFiniteSet(all) /\ \A t \in all : targets[t] \in Nat
  BY TargetsWeigh
<1>2. covered \in SUBSET all
  BY DEF Covered
<1> HIDE DEF targets, all, covered
<1>3. total \in Nat /\ part \in Nat
  BY <1>1, <1>2, SumIsNat DEF WeightOf
<1>4. part <= total
  BY <1>1, <1>2, SumMonotone DEF WeightOf
<1>5. KeywordCoverage(resume, r) = IF total = 0 THEN Full ELSE Round(Full * part, total)
  BY DEF KeywordCoverage, targets, all, covered
<1> HIDE DEF total, part
<1>6. total # 0 => Round(Full * part, total) \in 0 .. Full
  <2>1. Full * part <= Full * total /\ Full \in Nat /\ Full * part \in Nat
    BY <1>3, <1>4 DEF Full
  <2> QED
    BY <1>3, <2>1, RoundBounded
<1>7. Full \in 0 .. Full
  BY DEF Full
<1>8. CASE total = 0
  BY <1>5, <1>7, <1>8, Zenon
<1>9. CASE total # 0
  BY <1>5, <1>6, <1>9, Zenon
<1> QED
  BY <1>8, <1>9

LEMMA IntegrityInRange ==
    ASSUME NEW resume
    PROVE  SectionIntegrity(resume) \in 0 .. Full
<1> DEFINE required == RequiredFields(resume)
           passed == 1 + (IF resume.experience # << >> THEN 2 ELSE 0)
                       + (IF resume.experience # << >> /\ required THEN 1 ELSE 0)
                       + (IF resume.education # << >> THEN 1 ELSE 0)
                       + (IF resume.skills # << >> THEN 1 ELSE 0)
<1>0. SectionIntegrity(resume) = Round(Full * passed, 6)
  BY DEF SectionIntegrity
<1> HIDE DEF required
<1>1. passed \in 0 .. 6
  OBVIOUS
<1> HIDE DEF passed
<1>2. Round(Full * passed, 6) \in 0 .. Full
  <2>1. Full * passed \in Nat /\ Full * passed <= Full * 6 /\ Full \in Nat
    BY <1>1 DEF Full
  <2> QED
    BY <2>1, RoundBounded
<1> QED
  BY <1>0, <1>2

LEMMA HealthInRange ==
    ASSUME NEW resume \in Resume, NEW survived \in Nat \cup {None}
    PROVE  FormatHealth(resume, survived) \in 0 .. Full
<1> DEFINE total == Cardinality(BulletRefs(resume))
<1>1. total \in Nat
  BY BulletRefsAreFinite, FS_CardinalityType
<1>2. FormatHealth(resume, survived) =
        IF total = 0 THEN Full
        ELSE IF survived = None THEN 0
        ELSE IF 100 * survived >= 95 * total THEN Full
        ELSE Round(100 * Full * survived, 95 * total)
  BY DEF FormatHealth
<1> HIDE DEF total
<1>3. ASSUME total # 0, survived # None, ~ (100 * survived >= 95 * total)
      PROVE  Round(100 * Full * survived, 95 * total) \in 0 .. Full
  <2>1. survived \in Nat /\ 100 * survived <= 95 * total
    BY <1>1, <1>3
  <2>2. /\ 100 * Full * survived \in Nat /\ 95 * total \in Nat /\ 95 * total # 0
        /\ 100 * Full * survived <= Full * (95 * total) /\ Full \in Nat
    BY <1>1, <1>3, <2>1 DEF Full
  <2> QED
    BY <2>2, RoundBounded
<1>4. 0 \in 0 .. Full /\ Full \in 0 .. Full
  BY DEF Full
<1> QED
  BY <1>2, <1>3, <1>4, Zenon

LEMMA BulletTexts ==
    ASSUME NEW resume \in Resume, NEW ref \in BulletRefs(resume)
    PROVE  BulletAt(resume, ref) \in Texts
<1>1. PICK section \in {"experience", "projects"} :
         ref \in UNION {{<<section, i, j>> : j \in DOMAIN resume[section][i].bullets} :
                          i \in DOMAIN resume[section]}
  BY DEF BulletRefs
<1>2. PICK i \in DOMAIN resume[section] :
         \E j \in DOMAIN resume[section][i].bullets : ref = <<section, i, j>>
  BY <1>1
<1> PICK j \in DOMAIN resume[section][i].bullets : ref = <<section, i, j>>
  BY <1>2
<1>3. resume[section][i] \in Experience \cup Project
  <2>1. resume.experience \in Seq(Experience) /\ resume.projects \in Seq(Project)
    BY DEF Resume
  <2> QED
    BY <2>1
<1>4. resume[section][i].bullets \in Seq(Texts)
  BY <1>3 DEF Experience, Project
<1>5. resume[section][i].bullets[j] \in Texts
  BY <1>4
<1>6. ref[1] = section /\ ref[2] = i /\ ref[3] = j
  OBVIOUS
<1> QED
  BY <1>5, <1>6 DEF BulletAt

LEMMA DensityInRange ==
    ASSUME NEW resume \in Resume
    PROVE  LengthAndDensity(resume) \in 0 .. Full
<1> DEFINE refs == BulletRefs(resume)
           says == [r \in refs |-> Facts[BulletAt(resume, r)].words]
           names == [r \in refs |-> Facts[BulletAt(resume, r)].pronouns]
           words == SumFunction(says)
           pronouns == OtherPronouns + SumFunction(names)
           pages == (OtherWords + words + 449) \div 450
           recent == {i \in DOMAIN resume.experience : i <= 2}
           scores == [i \in recent |-> BulletCountScore(Len(resume.experience[i].bullets))]
           counts == SumFunction(scores)
           density == IF recent = {} THEN 0 ELSE Round(25 * counts, Cardinality(recent))
           length == BulletLengthScore(words, Cardinality(refs))
           persons == IF pronouns >= 5 THEN 0 ELSE 100 - 20 * pronouns
<1>1. LengthAndDensity(resume) = 35 * PageScore(pages) + density + 25 * length + 15 * persons
  BY DEF LengthAndDensity
<1>2. persons \in 0 .. 100
  <2>1. IsFiniteSet(refs) /\ DOMAIN names = refs
    BY BulletRefsAreFinite
  <2>2. \A r \in refs : names[r] \in Nat
    BY BulletTexts, ClaimsAssumption DEF TextFacts
  <2> HIDE DEF refs, names
  <2>3. SumFunction(names) \in Nat
    BY <2>1, <2>2, SumIsNat DEF SumFunction
  <2>4. pronouns \in Nat
    BY <2>3, ScoringAssumption
  <2> HIDE DEF pronouns
  <2> QED
    BY <2>4
<1>3. density \in 0 .. 2500
  <2>1. IsFiniteSet(recent)
    <3>1. resume.experience \in Seq(Experience)
      BY DEF Resume
    <3>2. recent \in SUBSET DOMAIN resume.experience /\ IsFiniteSet(DOMAIN resume.experience)
      BY <3>1, SequencesHaveFiniteDomains
    <3> HIDE DEF recent
    <3> QED
      BY <3>2, FS_Subset
  <2>2. DOMAIN scores = recent /\ \A i \in recent : scores[i] \in 0 .. 100
    BY DEF BulletCountScore
  <2> HIDE DEF recent, scores
  <2>3. counts \in Nat /\ counts <= 100 * Cardinality(recent)
    <3>1. \A i \in recent : scores[i] \in Nat
      BY <2>2
    <3>2. SumFunctionOnSet(scores, recent) \in Nat
      BY <2>1, <3>1, SumIsNat
    <3>3. SumFunctionOnSet(scores, recent) <= 100 * Cardinality(recent)
      BY <2>1, <2>2, SumBounded
    <3> QED
      BY <2>2, <3>2, <3>3 DEF SumFunction
  <2> DEFINE n == Cardinality(recent)
  <2>4. n \in Nat /\ (recent # {} => n # 0)
    BY <2>1, FS_CardinalityType, FS_EmptySet
  <2> HIDE DEF counts, n
  <2>5. n # 0 => Round(25 * counts, n) \in 0 .. 2500
    <3> DEFINE c == 25 * counts
               k == 2500
    <3>1. c \in Nat /\ c <= k * n /\ k \in Nat
      BY <2>3, <2>4 DEF n
    <3> HIDE DEF c, k
    <3>2. n # 0 => Round(c, n) \in 0 .. k
      BY <2>4, <3>1, RoundBounded
    <3> QED
      BY <3>2 DEF c, k
  <2> QED
    BY <2>4, <2>5 DEF n
<1>4. PageScore(pages) \in 0 .. 100
  BY DEF PageScore
<1>5. length \in 0 .. 100
  BY DEF BulletLengthScore
<1> DEFINE page == PageScore(pages)
<1> HIDE DEF pages, density, length, persons
<1>6. page \in 0 .. 100
  BY <1>4
<1> HIDE DEF page
<1> DEFINE sum == 35 * page + density + 25 * length + 15 * persons
<1>7. sum \in 0 .. Full
  BY <1>2, <1>3, <1>5, <1>6 DEF Full
<1>8. LengthAndDensity(resume) = sum
  BY <1>1 DEF page
<1> HIDE DEF sum
<1> QED
  BY <1>7, <1>8

(* Each of four rounded parts is at most half a hundredth off.             *)
LEMMA WeightedAverage ==
    ASSUME NEW w \in {50, 15, 20}, NEW s \in Nat
    PROVE  /\ Weighted(s, w) \in Nat
           /\ 2 * (s * w) <= 200 * Weighted(s, w) + 100
           /\ 200 * Weighted(s, w) <= 2 * (s * w) + 100
<1> DEFINE x == 2 * (s * w) + 100
           q == x \div 200
<1>1. x \in Nat
  OBVIOUS
<1>2. q \in Nat /\ 200 * q <= x /\ x < 200 * q + 200
  <2> HIDE DEF x
  <2> QED
    BY <1>1
<1>3. Weighted(s, w) = q
  BY DEF Weighted, Round
<1>4. s * w \in Nat
  OBVIOUS
<1> DEFINE m == s * w
<1> HIDE DEF q, m
<1> QED
  BY <1>2, <1>3, <1>4 DEF m

LEMMA HeadlineBetween ==
    ASSUME NEW a \in Nat, NEW b \in Nat, NEW c \in Nat, NEW d \in Nat,
           NEW lo \in Nat, NEW hi \in Nat, \A x \in {a, b, c, d} : lo <= x /\ x <= hi
    PROVE  lo <= HeadlineOf(a, b, c, d) + 2 /\ HeadlineOf(a, b, c, d) <= hi + 2
<1> DEFINE wa == Weighted(a, 50)
           wb == Weighted(b, 15)
           wc == Weighted(c, 15)
           wd == Weighted(d, 20)
<1>1. /\ wa \in Nat /\ 2 * (a * 50) <= 200 * wa + 100 /\ 200 * wa <= 2 * (a * 50) + 100
      /\ wb \in Nat /\ 2 * (b * 15) <= 200 * wb + 100 /\ 200 * wb <= 2 * (b * 15) + 100
      /\ wc \in Nat /\ 2 * (c * 15) <= 200 * wc + 100 /\ 200 * wc <= 2 * (c * 15) + 100
      /\ wd \in Nat /\ 2 * (d * 20) <= 200 * wd + 100 /\ 200 * wd <= 2 * (d * 20) + 100
  BY WeightedAverage
<1>2. HeadlineOf(a, b, c, d) = wa + wb + wc + wd
  BY DEF HeadlineOf
<1>3. /\ lo <= a /\ lo <= b /\ lo <= c /\ lo <= d
      /\ a <= hi /\ b <= hi /\ c <= hi /\ d <= hi
  OBVIOUS
<1> HIDE DEF wa, wb, wc, wd
<1>4. lo <= wa + wb + wc + wd + 2 /\ wa + wb + wc + wd <= hi + 2
  BY <1>1, <1>3
<1> QED
  BY <1>2, <1>4

(* A score's components are within a hundred percent, and its headline is  *)
(* within them but for rounding.                                           *)
InRange(score) ==
    /\ score.components \subseteq 0 .. Full
    /\ Min(score.components) <= score.headline + 2
    /\ score.headline <= Max(score.components) + 2

LEMMA LeastOfFour ==
    ASSUME NEW T \in SUBSET Nat, T # {}
    PROVE  Min(T) \in T /\ \A y \in T : Min(T) <= y
  BY LeastNatural DEF Min

LEMMA ScoreInRange ==
    ASSUME NEW resume \in Resume, NEW survived \in Nat \cup {None}
    PROVE  InRange(ScoreResume(resume, Requirements, survived))
<1> DEFINE a == KeywordCoverage(resume, Requirements)
           b == SectionIntegrity(resume)
           c == FormatHealth(resume, survived)
           d == LengthAndDensity(resume)
           score == ScoreResume(resume, Requirements, survived)
           C == {a, b, c, d}
<1>1. score.components = C /\ score.headline = HeadlineOf(a, b, c, d)
  BY DEF ScoreResume
<1>2. a \in 0 .. Full /\ b \in 0 .. Full /\ c \in 0 .. Full /\ d \in 0 .. Full
  BY TailoringAssumption, CoverageInRange, IntegrityInRange, HealthInRange, DensityInRange
<1> HIDE DEF a, b, c, d, score
<1>3. /\ C \in SUBSET Nat /\ C # {} /\ C \subseteq 0 .. Full
      /\ Full \in Nat /\ \A x \in C : x <= Full
      /\ a \in Nat /\ b \in Nat /\ c \in Nat /\ d \in Nat
  <2>1. Full \in Nat
    BY DEF Full
  <2> DEFINE I == 0 .. Full
  <2>2. I \subseteq Nat /\ \A x \in I : x <= Full
    BY <2>1
  <2> HIDE DEF I
  <2>3. a \in I /\ b \in I /\ c \in I /\ d \in I
    BY <1>2 DEF I
  <2>4. C \subseteq I /\ C # {}
    BY <2>3
  <2> HIDE DEF C
  <2>5. C \subseteq 0 .. Full
    BY <2>4 DEF I
  <2>6. C \in SUBSET Nat /\ \A x \in C : x <= Full
    BY <2>2, <2>4
  <2>7. a \in Nat /\ b \in Nat /\ c \in Nat /\ d \in Nat
    BY <2>2, <2>3
  <2> QED
    BY <2>1, <2>4, <2>5, <2>6, <2>7
<1>4. /\ Min(C) \in Nat /\ Max(C) \in Nat
      /\ \A x \in C : Min(C) <= x /\ x <= Max(C)
  <2> HIDE DEF C
  <2> QED
    BY <1>3, LeastOfFour, GreatestNatural
<1>5. Min(C) <= HeadlineOf(a, b, c, d) + 2 /\ HeadlineOf(a, b, c, d) <= Max(C) + 2
  BY <1>3, <1>4, HeadlineBetween
<1> QED
  BY <1>1, <1>3, <1>5 DEF InRange, score

LEMMA TailoredIsResume ==
    ASSUME NEW text \in [Refs -> Texts], NEW groups \in Seq(SkillGroup)
    PROVE  Tailored(text, groups) \in Resume
<1> DEFINE new(i) == [j \in DOMAIN Profile.experience[i].bullets |-> text[<<i, j>>]]
           part(i) == [Profile.experience[i] EXCEPT !.bullets = new(i)]
           parts == [i \in Roles |-> part(i)]
<1>1. Profile = [contact |-> Profile.contact, summary |-> Profile.summary,
                 experience |-> Profile.experience, education |-> Profile.education,
                 skills |-> Profile.skills, projects |-> Profile.projects]
  BY TailoringAssumption DEF Resume
<1>2. ASSUME NEW i \in Roles PROVE part(i) \in Experience
  <2> DEFINE e == Profile.experience[i]
  <2>1. e \in Experience
    BY RolesAreItems
  <2>2. new(i) \in Seq(Texts)
    <3>1. e.bullets \in Seq(Texts)
      BY <2>1 DEF Experience
    <3>2. DOMAIN e.bullets = 1 .. Len(e.bullets) /\ Len(e.bullets) \in Nat
      BY <3>1
    <3>3. \A j \in DOMAIN e.bullets : <<i, j>> \in Refs
      BY DEF Refs
    <3>4. new(i) \in [1 .. Len(e.bullets) -> Texts]
      BY <3>2, <3>3
    <3> HIDE DEF new
    <3> QED
      BY <3>2, <3>4, FunctionsAreSequences
  <2> HIDE DEF new
  <2>3. part(i) = [company |-> e.company, title |-> e.title, location |-> e.location,
                   start |-> e.start, end |-> e.end, technologies |-> e.technologies,
                   bullets |-> new(i)]
    BY <2>1 DEF Experience
  <2> QED
    BY <2>1, <2>2, <2>3 DEF Experience
<1>3. parts \in Seq(Experience)
  <2>1. Roles = 1 .. Len(Profile.experience) /\ Len(Profile.experience) \in Nat
    BY TailoringAssumption DEF Resume, Roles
  <2>2. parts \in [1 .. Len(Profile.experience) -> Experience]
    <3> HIDE DEF part
    <3> QED
      BY <1>2, <2>1
  <2> HIDE DEF parts
  <2> QED
    BY <2>1, <2>2, FunctionsAreSequences
<1>4. Tailored(text, groups) = [Profile EXCEPT !.experience = parts, !.skills = groups]
  BY DEF Tailored
<1> HIDE DEF parts
<1>5. Tailored(text, groups) =
        [contact |-> Profile.contact, summary |-> Profile.summary, experience |-> parts,
         education |-> Profile.education, skills |-> groups, projects |-> Profile.projects]
  BY <1>1, <1>4
<1>6. /\ Profile.contact \in Terms /\ Profile.summary \in Texts \cup {None}
      /\ Profile.education \in Seq(Terms) /\ Profile.projects \in Seq(Project)
  BY TailoringAssumption DEF Resume
<1> QED
  BY <1>3, <1>5, <1>6 DEF Resume

(* However many bullets survive the renderings, both scores that a version *)
(* stores are in range.                                                    *)
THEOREM ScoresStayInRange == Spec => []ScoresInRange
<1>0. ScoresInRange <=> InRange(report.before) /\ InRange(report.after)
  BY DEF ScoresInRange, InRange
<1>1. Init => ScoresInRange
  <2>1. InRange(Unscored)
    <3>1. Unscored.components = {0} /\ Unscored.headline = 0
      BY DEF Unscored
    <3> DEFINE C == {0}
    <3>2. C \in SUBSET Nat /\ C # {} /\ \A x \in C : x = 0
      OBVIOUS
    <3> HIDE DEF C
    <3>3. Min(C) \in C /\ Max(C) \in C
      BY <3>2, LeastOfFour, GreatestNatural
    <3>4. Min({0}) = 0 /\ Max({0}) = 0
      BY <3>2, <3>3 DEF C
    <3> QED
      BY <3>1, <3>4 DEF InRange, Full
  <2>2. Init => report.before = Unscored /\ report.after = Unscored
    BY DEF Init, NoReport
  <2> QED
    BY <1>0, <2>1, <2>2
<1>2. Typed /\ ScoresInRange /\ [Next]_vars => ScoresInRange'
  <2> SUFFICES ASSUME Typed, ScoresInRange, [Next]_vars PROVE ScoresInRange'
    OBVIOUS
  <2>1. ASSUME NEW first \in Renderings, NEW second \in Renderings, Finish(first, second)
        PROVE  ScoresInRange'
    <3> DEFINE tailored == Tailored(bullets, TailoredSkills)
    <3>1. first \in Nat \cup {None} /\ second \in Nat \cup {None}
      <4>1. Cardinality(BulletRefs(Profile)) \in Nat
        BY TailoringAssumption, BulletRefsAreFinite, FS_CardinalityType
      <4> QED
        BY <4>1 DEF Renderings
    <3>2. Profile \in Resume /\ tailored \in Resume
      BY TailoringAssumption, TailoredAreGroups, TailoredIsResume DEF Typed
    <3>3. /\ report'.before = ScoreResume(Profile, Requirements, first)
          /\ report'.after = ScoreResume(tailored, Requirements, second)
      BY <2>1 DEF Finish
    <3> HIDE DEF tailored
    <3>4. /\ InRange(ScoreResume(Profile, Requirements, first))
          /\ InRange(ScoreResume(tailored, Requirements, second))
      BY <3>1, <3>2, ScoreInRange
    <3> QED
      BY <3>3, <3>4 DEF ScoresInRange, InRange
  <2>2. CASE UNCHANGED report
    BY <2>2 DEF ScoresInRange
  <2>3. \/ UNCHANGED report
        \/ \E first, second \in Renderings : Finish(first, second)
    BY DEF Next, vars, ScoreCandidates, Answered, ModelFails, TakeRewrite, DiscardUnknown,
           DiscardInvalid, KeepUnchanged, ApplyRewrite, OmitMissing
  <2> QED
    BY <2>1, <2>2, <2>3
<1> QED
  BY <1>1, <1>2, TypedInv, PTL DEF Spec
=============================================================================
