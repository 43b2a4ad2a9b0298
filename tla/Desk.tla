---------------------------------- MODULE Desk ---------------------------------
(***************************************************************************)
(* The application for one job target, as its user works on it: the        *)
(* assisted apply kit, short answers, cover letters, the applications made *)
(* and their follow-ups (app/services/apply_kit.py, short_answers.py,      *)
(* cover_letter.py, applications.py, followup.py, answer_profile.py).      *)
(*                                                                         *)
(* Each API request has a session of its own.  It drafts at most twice,    *)
(* and stores what passed the check of its kind.  Of POST kit, which the   *)
(* apply kit calls first, only the outcome is here; module Kit has its     *)
(* steps.  The version is not deleted meanwhile.                           *)
(*                                                                         *)
(* A definition marked as a broken variant is what the one after it would  *)
(* be with a bug; no other definition uses it.                             *)
(***************************************************************************)
EXTENDS Prose, FieldPlan, Calendar

CONSTANTS
    Requests,       \* each is made once
    Kinds,          \* request -> what it may be
    Resumes,        \* name -> resume
    Requirements,   \* what the job asks for
    Ats,            \* the job target's source_ats
    FactSets,       \* what an answer profile may have filled in; {} without a row
    ContactOf,      \* name of a profile -> contact fields it has
    Questions,      \* of the form, or asked on their own
    AskKinds,       \* kinds of short answers that are asked for
    Personal,       \* those that ask for what only the user knows
    Tones,
    Standard,       \* the tone of POST kit's letter
    Days,           \* days an application may be said to be made on
    MaxEdits        \* what others do to the rows: a bound

Names == DOMAIN Resumes
Filled == {REQUIRED_FOR_COMPLETENESS \cup f : f \in SUBSET OptionalFacts}

(* What is written, with the resumes it was checked against.               *)
Row == [kind : DOMAIN WordLimits, draft : Drafts, profile : Names, tailored : Names]
(* A row of followups, with the date of the application it follows.        *)
Followup == [application : Nat, row : Row, due : Nat, applied : Nat]

ASSUME DeskAssumption ==
    /\ DOMAIN Kinds = Requests
    /\ Resumes \in [Names -> Resume]
    /\ Requirements \in JobRequirements
    /\ Ats \in DOMAIN FIELD_TAXONOMY
    /\ DOMAIN ContactOf = Names
    /\ AskKinds \subseteq ShortAnswerKinds
    /\ {f.key : f \in QuestionsOf(Ats)} \subseteq Questions \ Personal
    /\ FactSets \subseteq Filled \cup {{}}
    /\ Standard \in Tones
    /\ Days \subseteq Nat
    /\ MaxEdits \in Nat
    /\ None \notin Names \cup Drafts \cup Nat \cup Row \cup Followup

VARIABLES
    version,       \* resume of the tailored version, or None
    profile,       \* canonical resume
    facts,         \* facts the answer profile has
    extracted,     \* the requirements are cached
    answers,       \* question -> short_answers row, or None
    letters,       \* tone -> cover_letters row, or None
    applications,  \* applied_at of each, in the order of their creation
    followups,     \* request -> the row it has added, or None
    req,           \* request -> its session
    edits          \* how often others have acted

vars == <<version, profile, facts, extracted, answers, letters, applications, followups, req>>
tables == <<version, profile, facts, extracted, answers, letters, applications, followups>>

(* what: the kind of request; topic: the question or the tone;             *)
(* application: the one followed up; kind: of the prose; cached: there was *)
(* an answer when the request first looked; found: when it looked again;   *)
(* holds: it has written the requirements and not committed.               *)
Session ==
    [stage : {"new", "extracting", "grounding", "drafting", "writing", "flushing", "flushed",
              "tracking", "lettering", "returning", "done", "failed"},
     what : {"ask", "view", "regenerate", "letter", "followup", "track", "none"},
     topic : Questions \cup Tones \cup {None}, application : Nat,
     kind : DOMAIN WordLimits \cup {None},
     profile : Names \cup {None}, tailored : Names \cup {None}, facts : FactSets \cup {{}},
     applied : Days \cup {None}, attempt : 1 .. 2, draft : Drafts \cup {None},
     cached : BOOLEAN, found : BOOLEAN, holds : BOOLEAN, failed : BOOLEAN,
     shown : Row \cup {None}]

Unused ==
    [stage |-> "new", what |-> "none", topic |-> None, application |-> 0, kind |-> None,
     profile |-> None, tailored |-> None, facts |-> {}, applied |-> None, attempt |-> 1, draft |-> None,
     cached |-> FALSE, found |-> FALSE, holds |-> FALSE, failed |-> FALSE, shown |-> None]

TypeOK ==
    /\ version \in Names \cup {None}
    /\ profile \in Names
    /\ facts \in FactSets
    /\ extracted \in BOOLEAN
    /\ answers \in [Questions -> Row \cup {None}]
    /\ letters \in [Tones -> Row \cup {None}]
    /\ applications \in Seq(Days \cup {None})
    /\ followups \in [Requests -> Followup \cup {None}]
    /\ req \in [Requests -> Session]
    /\ edits \in 0 .. MaxEdits

(* A version may have been made without its requirements (POST versions).  *)
Init ==
    /\ version \in Names \cup {None}
    /\ profile \in Names
    /\ facts \in FactSets
    /\ extracted \in BOOLEAN
    /\ answers = [q \in Questions |-> None]
    /\ letters = [t \in Tones |-> None]
    /\ applications \in {<< >>} \cup (IF version = None THEN {} ELSE {<<d>> : d \in Days})
    /\ followups = [r \in Requests |-> None]
    /\ req = [r \in Requests |-> Unused]
    /\ edits = 0

-----------------------------------------------------------------------------
(* Sessions *)

Goes(r, session) == req' = [req EXCEPT ![r] = session]
Stage(r) == req[r].stage

(* Its session is closed: nothing that it had not committed remains.       *)
Ends(r, stage) == Goes(r, [Unused EXCEPT !.stage = stage, !.what = req[r].what])

(* An apply kit returns its fields: what they are made of is kept.         *)
Returns(r, answer) ==
    Goes(r, [Unused EXCEPT !.stage = "done", !.what = req[r].what, !.topic = req[r].topic,
                           !.profile = req[r].profile, !.facts = req[r].facts,
                           !.failed = req[r].failed, !.shown = answer])

Fails(r) ==
    /\ Stage(r) \notin {"new", "done", "failed"}
    /\ Ends(r, "failed")
    /\ UNCHANGED tables

(* A request that reads the version and needs the requirements.            *)
Begins(r, what, kind, topic, a) ==
    /\ what \in Kinds[r]
    /\ Stage(r) = "new"
    /\ version # None
    /\ Goes(r, [Unused EXCEPT
                  !.stage = IF extracted THEN "grounding" ELSE "extracting", !.what = what,
                  !.kind = kind, !.topic = topic, !.profile = profile, !.tailored = version,
                  !.application = a, !.applied = IF a = 0 THEN None ELSE applications[a]])
    /\ UNCHANGED tables

Ask(r, q, kind) == Begins(r, "ask", kind, q, 0)
WriteLetter(r, tone) == Begins(r, "letter", "letter", tone, 0)
FollowUp(r, a, kind) == a \in DOMAIN applications /\ Begins(r, "followup", kind, None, a)

(* The flush of the requirements waits for who holds the job target's row. *)
Unheld(r) == \A s \in Requests \ {r} : ~ req[s].holds

ExtractRequirements(r) ==
    /\ Stage(r) = "extracting"
    /\ Unheld(r)
    /\ Goes(r, [req[r] EXCEPT !.stage = "grounding", !.holds = TRUE])
    /\ UNCHANGED tables

\* Broken variant.
RefusedPersonal(r) == req[r].what = "ask" /\ req[r].topic \in Personal

(* Refused before any draft: a question for a fact that only the user      *)
(* knows, a follow-up to an application without a date.                    *)
Refused(r) ==
    \/ req[r].what = "ask" /\ req[r].topic \in Personal
    \/ req[r].what = "followup" /\ req[r].applied = None

StartDrafting(r) ==
    /\ Stage(r) = "grounding"
    /\ IF Refused(r) THEN Ends(r, "failed") ELSE Goes(r, [req[r] EXCEPT !.stage = "drafting"])
    /\ UNCHANGED tables

ProseRow(kind, draft, owner, tailored) ==
    [kind |-> kind, draft |-> draft, profile |-> owner, tailored |-> tailored]
Acceptable ==
    {ProseRow(p[1], p[2], p[3], p[4]) :
        p \in {q \in (DOMAIN WordLimits) \X Drafts \X Names \X Names :
                 Clean(q[1], q[2], Resumes[q[3]], Resumes[q[4]], Requirements)}}

DraftOf(r, draft) == ProseRow(req[r].kind, draft, req[r].profile, req[r].tailored)
Passes(r, draft) == DraftOf(r, draft) \in Acceptable

Viewing(r) == req[r].what \in {"view", "regenerate"}

(* The apply kit shows a failed answer on its field; others end with it.   *)
GivesUp(r) ==
    IF Viewing(r) THEN Goes(r, [req[r] EXCEPT !.stage = "returning", !.failed = TRUE])
    ELSE Ends(r, "failed")

\* Broken variant.
DraftWithoutEnd(r, draft) ==
    /\ Stage(r) = "drafting"
    /\ IF Passes(r, draft) THEN Goes(r, [req[r] EXCEPT !.stage = "writing", !.draft = draft])
       ELSE Goes(r, [req[r] EXCEPT !.attempt = 3 - req[r].attempt])
    /\ UNCHANGED tables

\* Broken variant.
DraftSecondUnchecked(r, draft) ==
    /\ Stage(r) = "drafting"
    /\ IF Passes(r, draft) \/ req[r].attempt = 2
       THEN Goes(r, [req[r] EXCEPT !.stage = "writing", !.draft = draft])
       ELSE Goes(r, [req[r] EXCEPT !.attempt = 2])
    /\ UNCHANGED tables

Draft(r, draft) ==
    /\ Stage(r) = "drafting"
    /\ \/ /\ Passes(r, draft)
          /\ Goes(r, [req[r] EXCEPT !.stage = "writing", !.draft = draft])
       \/ /\ ~ Passes(r, draft)
          /\ req[r].attempt = 1
          /\ Goes(r, [req[r] EXCEPT !.attempt = 2])
       \/ /\ ~ Passes(r, draft)
          /\ req[r].attempt = 2
          /\ GivesUp(r)
    /\ UNCHANGED tables

(* LLMOutputInvalidError *)
OutputInvalid(r) ==
    /\ Stage(r) = "drafting"
    /\ GivesUp(r)
    /\ UNCHANGED tables

RowOf(r) == DraftOf(r, req[r].draft)

-----------------------------------------------------------------------------
(* Letters and follow-ups: one insert, committed at once. *)

InsertLetter(r) ==
    /\ Stage(r) = "writing"
    /\ req[r].what = "letter"
    /\ letters[req[r].topic] = None
    /\ letters' = [letters EXCEPT ![req[r].topic] = RowOf(r)]
    /\ extracted' = TRUE
    /\ Ends(r, "done")
    /\ UNCHANGED <<version, profile, facts, answers, applications, followups>>

(* The unique key of version and tone: 409.                                *)
LetterExists(r) ==
    /\ Stage(r) = "writing"
    /\ req[r].what = "letter"
    /\ letters[req[r].topic] # None
    /\ Ends(r, "failed")
    /\ UNCHANGED tables

(* _send_after *)
DueDate(kind, applied) ==
    IF applied = None THEN None
    ELSE CASE kind = "post_apply"     -> AddBusinessDays(applied, 5)
           [] kind = "post_interview" -> applied + 1
           [] kind = "checkin"        -> AddBusinessDays(applied, 10)

InsertFollowup(r) ==
    /\ Stage(r) = "writing"
    /\ req[r].what = "followup"
    /\ followups' = [followups EXCEPT
          ![r] = [application |-> req[r].application, row |-> RowOf(r),
                  applied |-> req[r].applied,
                  due |-> DueDate(req[r].kind, req[r].applied)]]
    /\ extracted' = TRUE
    /\ Ends(r, "done")
    /\ UNCHANGED <<version, profile, facts, answers, letters, applications>>

-----------------------------------------------------------------------------
(* Short answers: looked up again, flushed, then committed. *)

Answering(r) == req[r].what \in {"ask", "view", "regenerate"}

LookAgain(r) ==
    /\ Stage(r) = "writing"
    /\ Answering(r)
    /\ Goes(r, [req[r] EXCEPT !.stage = "flushing", !.found = answers[req[r].topic] # None])
    /\ UNCHANGED tables

(* The row or its key is locked by a session that has flushed it.          *)
Unflushed(r) ==
    \A s \in Requests \ {r} : ~ (Stage(s) = "flushed" /\ req[s].topic = req[r].topic)

\* Broken variant.
FlushRegardless(r) ==
    /\ Stage(r) = "flushing"
    /\ Unflushed(r)
    /\ Goes(r, [req[r] EXCEPT !.stage = "flushed"])
    /\ UNCHANGED tables

FlushAnswer(r) ==
    /\ Stage(r) = "flushing"
    /\ Unflushed(r)
    /\ answers[req[r].topic] # None => req[r].found
    /\ Goes(r, [req[r] EXCEPT !.stage = "flushed"])
    /\ UNCHANGED tables

(* The unique key of job target and question, which nothing catches.       *)
AnswerExists(r) ==
    /\ Stage(r) = "flushing"
    /\ Unflushed(r)
    /\ answers[req[r].topic] # None
    /\ ~ req[r].found
    /\ Ends(r, "failed")
    /\ UNCHANGED tables

CommitAnswer(r) ==
    /\ Stage(r) = "flushed"
    /\ answers' = [answers EXCEPT ![req[r].topic] = RowOf(r)]
    /\ extracted' = (extracted \/ req[r].holds)
    /\ IF Viewing(r) THEN Returns(r, RowOf(r)) ELSE Ends(r, "done")
    /\ UNCHANGED <<version, profile, facts, letters, applications, followups>>

-----------------------------------------------------------------------------
(* The assisted apply kit *)

(* POST kit, up to its first commit: the requirements and the version are  *)
(* there.  A field that cannot be regenerated is refused before.           *)
EnsureVersion(r, what, name) ==
    /\ what \in Kinds[r] \cap {"view", "regenerate"}
    /\ what = "regenerate" => QuestionsOf(Ats) # {}
    /\ Stage(r) = "new"
    /\ extracted \/ Unheld(r)
    /\ version' = IF version = None THEN name ELSE version
    /\ extracted' = TRUE
    /\ Goes(r, [Unused EXCEPT !.stage = "lettering", !.what = what, !.tailored = version',
                              !.profile = profile])
    /\ UNCHANGED <<profile, facts, answers, letters, applications, followups>>

LetterRow(draft, owner, tailored) == ProseRow("letter", draft, owner, tailored)

(* An answer is reused unless its field is forced.                         *)
GeneratesIf(cached, what) == ~ cached \/ what = "regenerate"

(* POST kit's last commit, and what is read after it: profile, version,    *)
(* answer profile, and the answer to the form's question.                  *)
PlanFields(r, draft) ==
    /\ Stage(r) = "lettering"
    /\ LET row == LetterRow(draft, req[r].profile, req[r].tailored)
       IN  \/ letters[Standard] # None /\ UNCHANGED letters
           \/ /\ letters[Standard] = None
              /\ row \in Acceptable
              /\ letters' = [letters EXCEPT ![Standard] = row]
    /\ LET planned == [req[r] EXCEPT !.stage = "returning", !.facts = facts,
                                     !.profile = profile, !.tailored = version]
       IN  \/ QuestionsOf(Ats) = {} /\ Goes(r, planned)
           \/ \E field \in QuestionsOf(Ats) :
                LET cached == answers[field.key] # None
                    asking == [planned EXCEPT !.kind = field.asks, !.topic = field.key,
                                              !.cached = cached]
                IN  IF GeneratesIf(cached, req[r].what)
                    THEN Goes(r, [asking EXCEPT !.stage = "grounding"])
                    ELSE Goes(r, [asking EXCEPT !.shown = answers[field.key]])
    /\ UNCHANGED <<version, profile, facts, extracted, answers, applications, followups>>

(* Nothing was flushed: the commit at the end has nothing to write.        *)
ReturnKit(r) ==
    /\ Stage(r) = "returning"
    /\ Returns(r, req[r].shown)
    /\ UNCHANGED tables

-----------------------------------------------------------------------------
(* Applications *)

(* An application of this version is returned, or one is made.             *)
Track(r) ==
    /\ "track" \in Kinds[r]
    /\ Stage(r) = "new"
    /\ version # None
    /\ Goes(r, [Unused EXCEPT !.what = "track",
                              !.stage = IF applications = << >> THEN "tracking" ELSE "done"])
    /\ UNCHANGED tables

(* Its status is "applied", but it has no date.                            *)
InsertApplication(r) ==
    /\ Stage(r) = "tracking"
    /\ applications' = Append(applications, None)
    /\ Ends(r, "done")
    /\ UNCHANGED <<version, profile, facts, extracted, answers, letters, followups>>

(* PATCH application, of its date.                                         *)
UpdateApplication(a, applied) ==
    /\ a \in DOMAIN applications
    /\ applications' = [applications EXCEPT ![a] = applied]
    /\ UNCHANGED <<version, profile, facts, extracted, answers, letters, followups, req>>

-----------------------------------------------------------------------------
(* Others: PUT answer-profile replaces the whole row; a forced POST kit    *)
(* rewrites the version, then its letter.                                  *)

WriteFacts(filled) ==
    /\ facts' = filled
    /\ UNCHANGED <<version, profile, extracted, answers, letters, applications, followups, req>>

RewriteVersion(name) ==
    /\ version # None
    /\ version' = name
    /\ UNCHANGED <<profile, facts, extracted, answers, letters, applications, followups, req>>

RewriteLetter(draft) ==
    /\ version # None
    /\ letters[Standard] # None
    /\ LetterRow(draft, profile, version) \in Acceptable
    /\ letters' = [letters EXCEPT ![Standard] = LetterRow(draft, profile, version)]
    /\ UNCHANGED <<version, profile, facts, extracted, answers, applications, followups, req>>

EditProfile(name) ==
    /\ profile' = name
    /\ UNCHANGED <<version, facts, extracted, answers, letters, applications, followups, req>>

-----------------------------------------------------------------------------
StartRequest(r) ==
    \/ \E q \in Questions, kind \in AskKinds : Ask(r, q, kind)
    \/ \E tone \in Tones : WriteLetter(r, tone)
    \/ \E a \in DOMAIN applications, kind \in FollowupKinds : FollowUp(r, a, kind)
    \/ \E what \in {"view", "regenerate"}, name \in Names : EnsureVersion(r, what, name)
    \/ Track(r)

Step(r) ==
    \/ ExtractRequirements(r)
    \/ StartDrafting(r)
    \/ \E draft \in Drafts : Draft(r, draft) \/ PlanFields(r, draft)
    \/ OutputInvalid(r)
    \/ InsertLetter(r) \/ LetterExists(r)
    \/ InsertFollowup(r)
    \/ LookAgain(r) \/ FlushAnswer(r) \/ AnswerExists(r) \/ CommitAnswer(r)
    \/ ReturnKit(r)
    \/ InsertApplication(r)

(* What others do to the rows meanwhile.                                   *)
Others ==
    \/ \E a \in DOMAIN applications, applied \in Days \cup {None} : UpdateApplication(a, applied)
    \/ \E filled \in FactSets \ {{}} : WriteFacts(filled)
    \/ \E name \in Names : RewriteVersion(name) \/ EditProfile(name)
    \/ \E draft \in Drafts : RewriteLetter(draft)

Next ==
    \/ /\ \E r \in Requests : StartRequest(r) \/ Step(r) \/ Fails(r)
       /\ UNCHANGED edits
    \/ /\ Others
       /\ edits < MaxEdits
       /\ edits' = edits + 1

Spec == Init /\ [][Next]_<<vars, edits>>

(* Locks are granted in the order they are asked for, calls time out; that *)
(* a request fails is not assumed.                                         *)
Fairness == \A r \in Requests : SF_vars(Step(r))
FairSpec == Spec /\ Fairness

-----------------------------------------------------------------------------
(* Properties. *)

(* Two requests may draft one answer at once.  An answer is replaced only  *)
(* by a request that saw, after its draft, that there was one: what is     *)
(* committed between that look and the write of a request that saw none is *)
(* not lost, since the key refuses the write and the request fails.  This  *)
(* is less than short_answers.py:378 "Existing answers are reused unless   *)
(* force is set": a view that found none at first, and so drafted,         *)
(* replaces one that came while it was drafting.                           *)
AnswersReplacedKnowingly ==
    [][\A r \in Requests :
          CommitAnswer(r) /\ answers[req[r].topic] # None => req[r].found]_vars

(* What a view returned when it was done: its fields, as they were filled  *)
(* in.                                                                     *)
KitOf(r) == Resolved(Ats, req[r].facts, ContactOf[req[r].profile], req[r].failed)

(* The checklist of a form says that it can be submitted only if nothing   *)
(* is left to fill in: every fact is known, the answer shown passed its    *)
(* check, and an answer that failed is not passed over.  Every fact that   *)
(* is missing is named as a gap.                                           *)
ReadyMeansReady ==
    \A r \in Requests :
        Viewing(r) /\ Stage(r) = "done" =>
            LET plan == KitOf(r)
                given == ContactOf[req[r].profile] \cup req[r].facts
            IN  /\ \A f \in FieldsOf(Ats) : plan[f] # "needs_generation"
                /\ SubmitStatus(plan) = "ready" =>
                     /\ \A f \in FieldsOf(Ats) :
                          f.source \in {"profile", "answer_profile"} => f.fact \in given
                     /\ QuestionsOf(Ats) # {} =>
                          /\ req[r].shown # None
                          /\ req[r].shown \in Acceptable
                          /\ answers[req[r].topic] # None
                /\ Gaps(plan) =
                     {f.fact : f \in {g \in FieldsOf(Ats) : g.source = "answer_profile"}}
                     \ req[r].facts

(* A follow-up is due after the application it follows was made, by a      *)
(* day, or by five or ten business days, on one of them.                   *)
FollowupsDated ==
    \A r \in {s \in Requests : followups[s] # None} :
        LET f == followups[r]
        IN  /\ f.applied \in Days
            /\ f.due > f.applied
            /\ f.row.kind = "post_apply" => /\ IsBusinessDay(f.due)
                                            /\ BusinessDaysBetween(f.applied, f.due) = 5
            /\ f.row.kind = "post_interview" => f.due = f.applied + 1
            /\ f.row.kind = "checkin" => /\ IsBusinessDay(f.due)
                                         /\ BusinessDaysBetween(f.applied, f.due) = 10

(* The promise about generated text, for the three tables.                 *)
Places ==
    ({"answer"} \X Questions) \cup ({"letter"} \X Tones) \cup ({"followup"} \X Requests)
Shown ==
    [p \in Places |->
        CASE p[1] = "answer" -> answers[p[2]]
          [] p[1] = "letter" -> letters[p[2]]
          [] OTHER -> IF followups[p[2]] = None THEN None ELSE followups[p[2]].row]

KindsAt(p) ==
    CASE p[1] = "answer" -> ShortAnswerKinds
      [] p[1] = "letter" -> {"letter"}
      [] OTHER -> FollowupKinds
MayStand(p, row) == row.kind \in KindsAt(p) /\ row \in Acceptable

Truthful == INSTANCE Vetted WITH
    Places <- Places, Values <- Row, Original <- [p \in Places |-> None],
    Acceptable <- MayStand, shown <- Shown

(* Whatever is stored by whatever interleaving of requests passed the      *)
(* check of its kind, against the resumes it was written from: a failed    *)
(* draft is not stored, nor is a second draft on the strength of the       *)
(* first's report.                                                         *)
ImplementsVetted == Truthful!VettedSpec

(* Every request ends, whoever else drafts, holds rows or fails.           *)
RequestsEnd ==
    \A r \in Requests : Stage(r) # "new" ~> Stage(r) \in {"done", "failed"}
=============================================================================
