------------------------------- MODULE DeskProofs ------------------------------
(***************************************************************************)
(* What the application workflow keeps to, for any requests, drafts, form  *)
(* and profiles.                                                           *)
(***************************************************************************)
EXTENDS Desk, CalendarProofs

(* The fields of a session, as sets that the proofs do not look into.      *)
Stages ==
    {"new", "extracting", "grounding", "drafting", "writing", "flushing", "flushed",
     "tracking", "lettering", "returning", "done", "failed"}
Whats == {"ask", "view", "regenerate", "letter", "followup", "track", "none"}
Topics == Questions \cup Tones \cup {None}
Proses == DOMAIN WordLimits \cup {None}
Owners == Names \cup {None}
Knowns == FactSets \cup {{}}
Dates == Days \cup {None}
Attempts == 1 .. 2
Pieces == Drafts \cup {None}
Flags == BOOLEAN
Shows == Row \cup {None}
Fields ==
    [stage : Stages, what : Whats, topic : Topics, application : Nat, kind : Proses,
     profile : Owners, tailored : Owners, facts : Knowns, applied : Dates,
     attempt : Attempts, draft : Pieces, cached : Flags, found : Flags, holds : Flags,
     failed : Flags, shown : Shows]

LEMMA SessionFields == Session = Fields
BY DEF Session, Fields, Stages, Whats, Topics, Proses, Owners, Knowns, Dates, Attempts,
       Pieces, Flags, Shows

LEMMA Flag == TRUE \in Flags /\ FALSE \in Flags
BY DEF Flags

Doing == {"extracting", "grounding", "drafting", "writing", "flushing", "flushed"}
Written3 == {"writing", "flushing", "flushed"}

(* What a session is at each stage: the kind of its prose fits the table   *)
(* it goes to, a draft to be stored passed its check, a follow-up has a    *)
(* date, a view that found an answer does not draft, and one that is done  *)
(* without a failure shows an answer that passed.                          *)
KindFits(s) ==
    \/ s.what = "letter" /\ s.kind = "letter" /\ s.topic \in Tones
    \/ s.what = "followup" /\ s.kind \in FollowupKinds
    \/ s.what \in {"ask", "view", "regenerate"} /\ s.kind \in ShortAnswerKinds
       /\ s.topic \in Questions

Finished(s) ==
    /\ s.what \in {"view", "regenerate"}
    /\ s.stage \in {"returning", "done"}
    /\ QuestionsOf(Ats) # {}
    /\ ~ s.failed

Fit(s) ==
    /\ s.stage \in Doing => KindFits(s) /\ s.profile \in Names /\ s.tailored \in Names
    /\ s.stage \in Written3 => ProseRow(s.kind, s.draft, s.profile, s.tailored) \in Acceptable
    /\ s.what = "followup" /\ s.stage \in {"drafting", "writing"} => s.applied # None
    /\ s.stage \in {"flushing", "flushed"} => s.what \in {"ask", "view", "regenerate"}
    /\ s.stage = "tracking" => s.what = "track"
    /\ s.what = "view" /\ s.cached => s.stage = "returning"
    /\ s.stage \in {"lettering", "returning"} => s.what \in {"view", "regenerate"}
    /\ s.stage = "lettering" => s.profile \in Names /\ s.tailored \in Names
    /\ s.what \in {"view", "regenerate"} /\ s.stage \in {"returning", "done"} => s.profile \in Names
    /\ Finished(s) => s.topic \in Questions /\ s.shown \in Acceptable

(* What it relies on in the tables.                                        *)
Stands(s, resume, rows) ==
    /\ s.stage = "lettering" => resume # None
    /\ Finished(s) => rows[s.topic] # None

Fitting == \A r \in Requests : Fit(req[r]) /\ Stands(req[r], version, answers)

(* Everything that is stored passed the check of its kind.                 *)
Passed ==
    /\ \A q \in Questions : answers[q] # None => answers[q] \in Acceptable
    /\ \A t \in Tones : letters[t] # None => letters[t] \in Acceptable

Tabled ==
    /\ version \in Names \cup {None}
    /\ profile \in Names
    /\ facts \in FactSets
    /\ extracted \in BOOLEAN
    /\ answers \in [Questions -> Row \cup {None}]
    /\ letters \in [Tones -> Row \cup {None}]
    /\ applications \in Seq(Days \cup {None})
    /\ followups \in [Requests -> Followup \cup {None}]

(* The invariant, and with the bound of what others do.                    *)
IInv ==
    /\ Tabled
    /\ req \in [Requests -> Fields]
    /\ Fitting
    /\ Passed
    /\ FollowupsDated
Inv == IInv /\ edits \in 0 .. MaxEdits

-----------------------------------------------------------------------------
(* The form. *)

LEMMA FieldsOfBoards ==
    \A f \in FieldsOf(Ats) :
        /\ f.asks # "nothing" => f.asks \in ShortAnswerKinds /\ f.source = "generated"
        /\ f.source \in {"generated", "manual_only", "profile", "answer_profile"}
<1> DEFINE Good(f) == /\ f.asks # "nothing" => f.asks \in ShortAnswerKinds /\ f.source = "generated"
                      /\ f.source \in {"generated", "manual_only", "profile", "answer_profile"}
<1>1. /\ \A k : Good(Contact(k)) /\ Good(Upload(k))
      /\ \A k, c : Good(Fact(k, c))
      /\ \A k, a : a \in ShortAnswerKinds => Good(Question(k, a))
      /\ Good(Eeo)
  BY DEF Contact, Upload, Fact, Question, Eeo, Field
<1> HIDE DEF Good
<1>2. "why_company" \in ShortAnswerKinds /\ "why_role" \in ShortAnswerKinds
  BY DEF ShortAnswerKinds
<1>3. \A i \in DOMAIN FIELD_TAXONOMY.greenhouse : Good(FIELD_TAXONOMY.greenhouse[i])
  BY <1>1, <1>2 DEF FIELD_TAXONOMY
<1>4. \A i \in DOMAIN FIELD_TAXONOMY.lever : Good(FIELD_TAXONOMY.lever[i])
  BY <1>1, <1>2 DEF FIELD_TAXONOMY
<1>5. \A i \in DOMAIN FIELD_TAXONOMY.ashby : Good(FIELD_TAXONOMY.ashby[i])
  BY <1>1, <1>2 DEF FIELD_TAXONOMY
<1>6. \A i \in DOMAIN FIELD_TAXONOMY.unknown : Good(FIELD_TAXONOMY.unknown[i])
  BY DEF FIELD_TAXONOMY
<1>7. Ats \in {"greenhouse", "lever", "ashby", "unknown"}
  BY DeskAssumption DEF FIELD_TAXONOMY
<1>8. \A f \in FieldsOf(Ats) : Good(f)
  BY <1>3, <1>4, <1>5, <1>6, <1>7 DEF FieldsOf
<1> QED
  BY <1>8 DEF Good

LEMMA QuestionsFit ==
    \A f \in QuestionsOf(Ats) : f.key \in Questions /\ f.asks \in ShortAnswerKinds
BY DeskAssumption, FieldsOfBoards DEF QuestionsOf

LEMMA KindsAreLimited ==
    /\ ShortAnswerKinds \subseteq DOMAIN WordLimits
    /\ FollowupKinds \subseteq DOMAIN WordLimits
    /\ "letter" \in DOMAIN WordLimits
BY DEF ShortAnswerKinds, FollowupKinds, WordLimits

(* What passes is a row, and not None.                                     *)
LEMMA AcceptableRows ==
    \A row \in Acceptable : row \in Row
<1> TAKE row \in Acceptable
<1>1. PICK p \in (DOMAIN WordLimits) \X Drafts \X Names \X Names :
        row = ProseRow(p[1], p[2], p[3], p[4])
  BY DEF Acceptable
<1> HIDE DEF Names
<1>2. p[1] \in DOMAIN WordLimits /\ p[2] \in Drafts /\ p[3] \in Names /\ p[4] \in Names
  OBVIOUS
<1> QED
  BY <1>1, <1>2 DEF ProseRow, Row

-----------------------------------------------------------------------------
(* A request moves on. *)

LEMMA Moves ==
    ASSUME IInv, NEW r \in Requests, NEW s \in Fields, Goes(r, s),
           Fit(s), Stands(s, version', answers'),
           version # None => version' # None,
           \A q \in Questions : answers[q] # None => answers'[q] # None
    PROVE  req' \in [Requests -> Fields] /\ Fitting'
<1>1. req' \in [Requests -> Fields]
  BY DEF IInv, Goes
<1>2. ASSUME NEW q \in Requests PROVE Fit(req'[q]) /\ Stands(req'[q], version', answers')
  <2>1. CASE q = r
    <3>1. req'[q] = s
      BY <2>1 DEF IInv, Goes
    <3> QED
      BY <3>1
  <2>2. CASE q # r
    <3>1. req'[q] = req[q]
      BY <2>2 DEF IInv, Goes
    <3>2. Fit(req[q]) /\ Stands(req[q], version, answers)
      BY DEF IInv, Fitting
    <3>3. Finished(req[q]) => req[q].topic \in Questions
      BY <3>2 DEF Fit
    <3>4. Stands(req[q], version', answers')
      BY <3>2, <3>3 DEF Stands
    <3> QED
      BY <3>1, <3>2, <3>4
  <2> QED
    BY <2>1, <2>2
<1> QED
  BY <1>1, <1>2 DEF Fitting

LEMMA SameTables ==
    ASSUME IInv, NEW r \in Requests, NEW s \in Fields, Goes(r, s), UNCHANGED tables,
           Fit(s), Stands(s, version, answers)
    PROVE  IInv'
<1>1. /\ version' = version /\ profile' = profile /\ facts' = facts /\ extracted' = extracted
      /\ answers' = answers /\ letters' = letters /\ applications' = applications
      /\ followups' = followups
  BY DEF tables
<1>2. req' \in [Requests -> Fields] /\ Fitting'
  <2> HIDE DEF IInv
  <2> QED
    BY <1>1, Moves
<1>3. Tabled'
  BY <1>1 DEF IInv, Tabled
<1>4. Passed'
  BY <1>1 DEF IInv, Passed
<1>5. FollowupsDated'
  BY <1>1 DEF IInv, FollowupsDated
<1> QED
  BY <1>2, <1>3, <1>4, <1>5 DEF IInv

LEMMA SessionOf ==
    ASSUME IInv, NEW r \in Requests
    PROVE  req[r] \in Fields /\ Fit(req[r]) /\ Stands(req[r], version, answers)
BY DEF IInv, Fitting

LEMMA UnusedTyped == Unused \in Fields
<1>1. {} \in Knowns /\ 1 \in Attempts /\ "new" \in Stages /\ "none" \in Whats
  BY DEF Knowns, Attempts, Stages, Whats
<1>2. None \in Topics /\ None \in Proses /\ None \in Owners /\ None \in Dates
      /\ None \in Pieces /\ None \in Shows
  BY DEF Topics, Proses, Owners, Dates, Pieces, Shows
<1> QED
  BY <1>1, <1>2, Flag DEF Unused, Fields

(* A closed session fits anything but a view that is done.                 *)
Closed(r, stage) == [Unused EXCEPT !.stage = stage, !.what = req[r].what]

LEMMA Closing ==
    ASSUME IInv, NEW r \in Requests, NEW stage \in {"done", "failed"},
           stage = "done" => ~ Viewing(r)
    PROVE  /\ Closed(r, stage) \in Fields
           /\ Fit(Closed(r, stage))
           /\ \A resume, rows : Stands(Closed(r, stage), resume, rows)
<1>1. req[r] \in Fields
  BY SessionOf
<1> DEFINE s == Closed(r, stage)
<1>2. s.stage = stage /\ s.what = req[r].what /\ ~ s.cached
  BY DEF Closed, Unused
<1>3. s \in Fields
  <2>1. req[r].what \in Whats /\ stage \in Stages
    BY <1>1 DEF Fields, Stages
  <2> QED
    BY <2>1, UnusedTyped DEF Closed, Fields
<1>4. ~ Finished(s)
  BY <1>2 DEF Finished, Viewing
<1> HIDE DEF s
<1>5. Fit(s)
  BY <1>2, <1>4 DEF Fit, Doing, Written3, Viewing
<1>6. \A resume, rows : Stands(s, resume, rows)
  BY <1>2, <1>4 DEF Stands
<1> QED
  BY <1>3, <1>5, <1>6 DEF s

LEMMA FailsKeeps ==
    ASSUME IInv, NEW r \in Requests, NEW stage \in {"done", "failed"},
           stage = "done" => ~ Viewing(r), Ends(r, stage), UNCHANGED tables
    PROVE  IInv'
<1>1. Goes(r, Closed(r, stage))
  BY DEF Ends, Closed
<1> DEFINE s == Closed(r, stage)
<1>2. s \in Fields /\ Fit(s) /\ Stands(s, version, answers)
  BY Closing
<1> HIDE DEF s, IInv
<1> QED
  BY <1>1, <1>2, SameTables DEF s

LEMMA BeginsKeeps ==
    ASSUME IInv, NEW r \in Requests, NEW what, NEW kind, NEW topic, NEW a,
           Begins(r, what, kind, topic, a),
           what \in {"ask", "letter", "followup"},
           kind \in DOMAIN WordLimits,
           topic \in Questions \cup Tones \cup {None},
           a \in {0} \cup DOMAIN applications,
           \/ what = "letter" /\ kind = "letter" /\ topic \in Tones
           \/ what = "followup" /\ kind \in FollowupKinds
           \/ what = "ask" /\ kind \in ShortAnswerKinds /\ topic \in Questions
    PROVE  IInv'
<1> DEFINE first == IF extracted THEN "grounding" ELSE "extracting"
           made == IF a = 0 THEN None ELSE applications[a]
           s == [Unused EXCEPT
                  !.stage = first, !.what = what,
                  !.kind = kind, !.topic = topic, !.profile = profile, !.tailored = version,
                  !.application = a, !.applied = made]
<1>1. Goes(r, s) /\ UNCHANGED tables /\ version # None
  BY DEF Begins
<1>2. version \in Names /\ profile \in Names
  BY <1>1 DEF IInv, Tabled
<1>3. a \in Nat /\ made \in Days \cup {None} /\ first \in {"grounding", "extracting"}
  BY DEF IInv, Tabled
<1> HIDE DEF first, made
<1>4. /\ s.stage \in {"grounding", "extracting"}
      /\ s.what = what /\ s.kind = kind /\ s.topic = topic
      /\ s.profile = profile /\ s.tailored = version
  BY <1>3 DEF Unused
<1>5. s \in Fields
  <2>1. /\ first \in Stages /\ what \in Whats /\ kind \in Proses /\ topic \in Topics
        /\ profile \in Owners /\ version \in Owners /\ made \in Dates
    BY <1>2, <1>3 DEF Stages, Whats, Proses, Topics, Owners, Dates
  <2> QED
    BY <1>3, <2>1, UnusedTyped DEF Fields
<1> HIDE DEF s
<1>6. ~ Finished(s)
  BY <1>4 DEF Finished
<1>7. Fit(s)
  BY <1>2, <1>4, <1>6 DEF Fit, KindFits, Doing, Written3
<1>8. Stands(s, version, answers)
  BY <1>4, <1>6 DEF Stands
<1> HIDE DEF IInv
<1> QED
  BY <1>1, <1>5, <1>7, <1>8, SameTables

LEMMA StartsKeep ==
    ASSUME IInv, NEW r \in Requests,
           \/ \E q \in Questions, kind \in AskKinds : Ask(r, q, kind)
           \/ \E tone \in Tones : WriteLetter(r, tone)
           \/ \E a \in DOMAIN applications, kind \in FollowupKinds : FollowUp(r, a, kind)
    PROVE  IInv'
<1> HIDE DEF IInv
<1>1. ASSUME NEW q \in Questions, NEW kind \in AskKinds, Ask(r, q, kind) PROVE IInv'
  <2>1. kind \in ShortAnswerKinds /\ kind \in DOMAIN WordLimits
    BY DeskAssumption, KindsAreLimited
  <2> QED
    BY <1>1, <2>1, BeginsKeeps DEF Ask
<1>2. ASSUME NEW tone \in Tones, WriteLetter(r, tone) PROVE IInv'
  BY <1>2, KindsAreLimited, BeginsKeeps DEF WriteLetter
<1>3. ASSUME NEW a \in DOMAIN applications, NEW kind \in FollowupKinds, FollowUp(r, a, kind)
      PROVE  IInv'
  BY <1>3, KindsAreLimited, BeginsKeeps DEF FollowUp
<1> QED
  BY <1>1, <1>2, <1>3

LEMMA ExtractKeeps ==
    ASSUME IInv, NEW r \in Requests, ExtractRequirements(r)
    PROVE  IInv'
<1> DEFINE p == req[r]
           s == [p EXCEPT !.stage = "grounding", !.holds = TRUE]
<1>1. p \in Fields /\ Fit(p)
  BY SessionOf
<1>2. Goes(r, s) /\ UNCHANGED tables /\ p.stage = "extracting"
  BY DEF ExtractRequirements, Stage
<1> HIDE DEF p
<1>0. s \in Fields
  <2>1. "grounding" \in Stages
    BY DEF Stages
  <2> QED
    BY <1>1, <2>1, Flag DEF Fields
<1>3. /\ s.stage = "grounding"
      /\ s.what = p.what /\ s.kind = p.kind /\ s.topic = p.topic /\ s.profile = p.profile
      /\ s.tailored = p.tailored /\ s.cached = p.cached
  BY <1>1 DEF Fields
<1> HIDE DEF s
<1>4. ~ Finished(s)
  BY <1>3 DEF Finished
<1>5. Fit(s)
  BY <1>1, <1>2, <1>3, <1>4 DEF Fit, KindFits, Doing, Written3
<1>6. Stands(s, version, answers)
  BY <1>3, <1>4 DEF Stands
<1> HIDE DEF IInv
<1> QED
  BY <1>0, <1>2, <1>5, <1>6, SameTables

LEMMA StartDraftingKeeps ==
    ASSUME IInv, NEW r \in Requests, StartDrafting(r)
    PROVE  IInv'
<1> DEFINE p == req[r]
           s == [p EXCEPT !.stage = "drafting"]
<1>1. CASE Refused(r)
  <2>1. Ends(r, "failed") /\ UNCHANGED tables
    BY <1>1 DEF StartDrafting
  <2> HIDE DEF IInv
  <2> QED
    BY <2>1, FailsKeeps
<1>2. CASE ~ Refused(r)
  <2>1. p \in Fields /\ Fit(p)
    BY SessionOf
  <2>2. /\ Goes(r, s) /\ UNCHANGED tables /\ p.stage = "grounding"
        /\ p.what = "followup" => p.applied # None
    BY <1>2 DEF StartDrafting, Stage, Refused
  <2> HIDE DEF p
  <2>0. "drafting" \in Stages
    BY DEF Stages
  <2>3. /\ s \in Fields /\ s.stage = "drafting"
        /\ s.what = p.what /\ s.kind = p.kind /\ s.topic = p.topic /\ s.profile = p.profile
        /\ s.tailored = p.tailored /\ s.cached = p.cached /\ s.applied = p.applied
    BY <2>0, <2>1 DEF Fields
  <2> HIDE DEF s
  <2>4. ~ Finished(s)
    BY <2>3 DEF Finished
  <2>5. Fit(s)
    BY <2>1, <2>2, <2>3, <2>4 DEF Fit, KindFits, Doing, Written3
  <2>6. Stands(s, version, answers)
    BY <2>3, <2>4 DEF Stands
  <2> HIDE DEF IInv
  <2> QED
    BY <2>2, <2>3, <2>5, <2>6, SameTables
<1> QED
  BY <1>1, <1>2

LEMMA GivesUpKeeps ==
    ASSUME IInv, NEW r \in Requests, req[r].stage = "drafting", GivesUp(r), UNCHANGED tables
    PROVE  IInv'
<1> DEFINE p == req[r]
           s == [p EXCEPT !.stage = "returning", !.failed = TRUE]
<1>1. CASE ~ Viewing(r)
  <2>1. Ends(r, "failed")
    BY <1>1 DEF GivesUp
  <2> HIDE DEF IInv
  <2> QED
    BY <2>1, FailsKeeps
<1>2. CASE Viewing(r)
  <2>1. p \in Fields /\ Fit(p)
    BY SessionOf
  <2>2. Goes(r, s) /\ p.stage = "drafting" /\ p.what \in {"view", "regenerate"}
    BY <1>2 DEF GivesUp, Viewing
  <2> HIDE DEF p
  <2>3. "returning" \in Stages
    BY DEF Stages
  <2>4. /\ s \in Fields /\ s.stage = "returning" /\ s.failed
        /\ s.what = p.what /\ s.profile = p.profile
    BY <2>1, <2>3, Flag DEF Fields
  <2> HIDE DEF s
  <2>5. ~ Finished(s)
    BY <2>4 DEF Finished
  <2>6. Fit(s)
    BY <2>1, <2>2, <2>4, <2>5 DEF Fit, Doing, Written3
  <2>7. Stands(s, version, answers)
    BY <2>4, <2>5 DEF Stands
  <2> HIDE DEF IInv
  <2> QED
    BY <2>2, <2>4, <2>6, <2>7, SameTables
<1> QED
  BY <1>1, <1>2

LEMMA OutputInvalidKeeps ==
    ASSUME IInv, NEW r \in Requests, OutputInvalid(r)
    PROVE  IInv'
<1> HIDE DEF IInv
<1> QED
  BY GivesUpKeeps DEF OutputInvalid, Stage

LEMMA DraftKeeps ==
    ASSUME IInv, NEW r \in Requests, NEW draft \in Drafts, Draft(r, draft)
    PROVE  IInv'
<1> DEFINE p == req[r]
<1>1. p \in Fields /\ Fit(p)
  BY SessionOf
<1>2. p.stage = "drafting" /\ UNCHANGED tables
  BY DEF Draft, Stage
<1>3. CASE Passes(r, draft) /\ Goes(r, [p EXCEPT !.stage = "writing", !.draft = draft])
  <2> DEFINE s == [p EXCEPT !.stage = "writing", !.draft = draft]
  <2>1. Goes(r, s)
    BY <1>3
  <2>2. ProseRow(p.kind, draft, p.profile, p.tailored) \in Acceptable
    BY <1>3 DEF Passes, DraftOf
  <2> HIDE DEF p
  <2>3. "writing" \in Stages /\ draft \in Pieces
    BY DEF Stages, Pieces
  <2>4. /\ s \in Fields /\ s.stage = "writing" /\ s.draft = draft
        /\ s.what = p.what /\ s.kind = p.kind /\ s.topic = p.topic /\ s.profile = p.profile
        /\ s.tailored = p.tailored /\ s.cached = p.cached /\ s.applied = p.applied
    BY <1>1, <2>3 DEF Fields
  <2> HIDE DEF s
  <2>5. ~ Finished(s)
    BY <2>4 DEF Finished
  <2>6. Fit(s)
    BY <1>1, <1>2, <2>2, <2>4, <2>5 DEF Fit, KindFits, Doing, Written3
  <2>7. Stands(s, version, answers)
    BY <2>4, <2>5 DEF Stands
  <2> HIDE DEF IInv
  <2> QED
    BY <1>2, <2>1, <2>4, <2>6, <2>7, SameTables
<1>4. CASE Goes(r, [p EXCEPT !.attempt = 2])
  <2> DEFINE s == [p EXCEPT !.attempt = 2]
  <2>1. Goes(r, s)
    BY <1>4
  <2> HIDE DEF p
  <2>2. 2 \in Attempts
    BY DEF Attempts
  <2>3. /\ s \in Fields /\ s.stage = "drafting"
        /\ s.what = p.what /\ s.kind = p.kind /\ s.topic = p.topic /\ s.profile = p.profile
        /\ s.tailored = p.tailored /\ s.cached = p.cached /\ s.applied = p.applied
    BY <1>1, <1>2, <2>2 DEF Fields
  <2> HIDE DEF s
  <2>4. ~ Finished(s)
    BY <2>3 DEF Finished
  <2>5. Fit(s)
    BY <1>1, <1>2, <2>3, <2>4 DEF Fit, KindFits, Doing, Written3
  <2>6. Stands(s, version, answers)
    BY <2>3, <2>4 DEF Stands
  <2> HIDE DEF IInv
  <2> QED
    BY <1>2, <2>1, <2>3, <2>5, <2>6, SameTables
<1>5. CASE GivesUp(r)
  <2> HIDE DEF IInv
  <2> QED
    BY <1>2, <1>5, GivesUpKeeps
<1> QED
  BY <1>3, <1>4, <1>5 DEF Draft

LEMMA LookAgainKeeps ==
    ASSUME IInv, NEW r \in Requests, LookAgain(r)
    PROVE  IInv'
<1> DEFINE p == req[r]
           found == answers[p.topic] # None
           s == [p EXCEPT !.stage = "flushing", !.found = found]
<1>1. p \in Fields /\ Fit(p)
  BY SessionOf
<1>2. /\ Goes(r, s) /\ UNCHANGED tables /\ p.stage = "writing"
      /\ p.what \in {"ask", "view", "regenerate"}
  BY DEF LookAgain, Stage, Answering
<1>3. found \in Flags
  BY DEF Flags
<1> HIDE DEF p, found
<1>4. "flushing" \in Stages
  BY DEF Stages
<1>5. /\ s \in Fields /\ s.stage = "flushing"
      /\ s.what = p.what /\ s.kind = p.kind /\ s.topic = p.topic /\ s.profile = p.profile
      /\ s.tailored = p.tailored /\ s.cached = p.cached /\ s.draft = p.draft
  BY <1>1, <1>3, <1>4 DEF Fields
<1> HIDE DEF s
<1>6. ~ Finished(s)
  BY <1>5 DEF Finished
<1>7. Fit(s)
  BY <1>1, <1>2, <1>5, <1>6 DEF Fit, KindFits, Doing, Written3
<1>8. Stands(s, version, answers)
  BY <1>5, <1>6 DEF Stands
<1> HIDE DEF IInv
<1> QED
  BY <1>2, <1>5, <1>7, <1>8, SameTables

LEMMA FlushKeeps ==
    ASSUME IInv, NEW r \in Requests, FlushAnswer(r)
    PROVE  IInv'
<1> DEFINE p == req[r]
           s == [p EXCEPT !.stage = "flushed"]
<1>1. p \in Fields /\ Fit(p)
  BY SessionOf
<1>2. Goes(r, s) /\ UNCHANGED tables /\ p.stage = "flushing"
  BY DEF FlushAnswer, Stage
<1> HIDE DEF p
<1>3. "flushed" \in Stages
  BY DEF Stages
<1>4. /\ s \in Fields /\ s.stage = "flushed"
      /\ s.what = p.what /\ s.kind = p.kind /\ s.topic = p.topic /\ s.profile = p.profile
      /\ s.tailored = p.tailored /\ s.cached = p.cached /\ s.draft = p.draft
  BY <1>1, <1>3 DEF Fields
<1> HIDE DEF s
<1>5. ~ Finished(s)
  BY <1>4 DEF Finished
<1>6. Fit(s)
  BY <1>1, <1>2, <1>4, <1>5 DEF Fit, KindFits, Doing, Written3
<1>7. Stands(s, version, answers)
  BY <1>4, <1>5 DEF Stands
<1> HIDE DEF IInv
<1> QED
  BY <1>2, <1>4, <1>6, <1>7, SameTables

(* What an apply kit returns is what it held.                              *)
ReturnedOf(r, answer) ==
    [Unused EXCEPT !.stage = "done", !.what = req[r].what, !.topic = req[r].topic,
                   !.profile = req[r].profile, !.facts = req[r].facts,
                   !.failed = req[r].failed, !.shown = answer]

LEMMA Returning ==
    ASSUME IInv, NEW r \in Requests, NEW answer \in Shows
    PROVE  LET s == ReturnedOf(r, answer)
               p == req[r]
           IN  /\ s \in Fields
               /\ s.stage = "done" /\ s.what = p.what /\ s.topic = p.topic /\ ~ s.cached
               /\ s.profile = p.profile /\ s.failed = p.failed /\ s.shown = answer
<1>1. req[r] \in Fields /\ "done" \in Stages
  BY SessionOf DEF Stages
<1> QED
  BY <1>1, UnusedTyped DEF ReturnedOf, Fields, Unused

LEMMA ReturnKeeps ==
    ASSUME IInv, NEW r \in Requests, ReturnKit(r)
    PROVE  IInv'
<1> DEFINE p == req[r]
           s == ReturnedOf(r, p.shown)
<1>1. p \in Fields /\ Fit(p) /\ Stands(p, version, answers)
  BY SessionOf
<1>2. Goes(r, s) /\ UNCHANGED tables /\ p.stage = "returning"
  BY DEF ReturnKit, Returns, ReturnedOf, Stage
<1>3. p.shown \in Shows
  BY <1>1 DEF Fields
<1>4. /\ s \in Fields
      /\ s.stage = "done" /\ s.what = p.what /\ s.topic = p.topic /\ ~ s.cached
      /\ s.profile = p.profile /\ s.failed = p.failed /\ s.shown = p.shown
  BY <1>3, Returning
<1> HIDE DEF p, s
<1>5. Finished(s) => Finished(p)
  BY <1>2, <1>4 DEF Finished
<1>6. Fit(s)
  BY <1>1, <1>2, <1>4, <1>5 DEF Fit, Doing, Written3
<1>7. Stands(s, version, answers)
  BY <1>1, <1>4, <1>5 DEF Stands
<1> HIDE DEF IInv
<1> QED
  BY <1>2, <1>4, <1>6, <1>7, SameTables

LEMMA RefusedKeeps ==
    ASSUME IInv, NEW r \in Requests, Fails(r) \/ LetterExists(r) \/ AnswerExists(r)
    PROVE  IInv'
<1> HIDE DEF IInv
<1>1. Ends(r, "failed") /\ UNCHANGED tables
  BY DEF Fails, LetterExists, AnswerExists
<1> QED
  BY <1>1, FailsKeeps

LEMMA TrackKeeps ==
    ASSUME IInv, NEW r \in Requests, Track(r)
    PROVE  IInv'
<1> DEFINE stage == IF applications = << >> THEN "tracking" ELSE "done"
           s == [Unused EXCEPT !.what = "track", !.stage = stage]
<1>1. Goes(r, s) /\ UNCHANGED tables
  BY DEF Track
<1>2. stage \in {"tracking", "done"} /\ stage \in Stages /\ "track" \in Whats
  BY DEF Stages, Whats
<1> HIDE DEF stage
<1>3. s \in Fields /\ s.stage = stage /\ s.what = "track"
  BY <1>2, UnusedTyped DEF Fields
<1> HIDE DEF s
<1>4. ~ Finished(s)
  BY <1>3 DEF Finished
<1>5. Fit(s)
  BY <1>2, <1>3, <1>4 DEF Fit, Doing, Written3
<1>6. Stands(s, version, answers)
  BY <1>2, <1>3, <1>4 DEF Stands
<1> HIDE DEF IInv
<1> QED
  BY <1>1, <1>3, <1>5, <1>6, SameTables

-----------------------------------------------------------------------------
(* A request writes. *)

RowPassed(r) == RowOf(r) \in Acceptable /\ RowOf(r) \in Row /\ RowOf(r) # None

LEMMA WrittenPassed ==
    ASSUME IInv, NEW r \in Requests, req[r].stage \in Written3
    PROVE  RowPassed(r) /\ KindFits(req[r])
<1>1. Fit(req[r])
  BY SessionOf
<1>2. RowOf(r) \in Acceptable
  BY <1>1 DEF Fit, RowOf, DraftOf
<1>3. KindFits(req[r])
  BY <1>1 DEF Fit, Written3, Doing
<1> QED
  BY <1>2, <1>3, AcceptableRows, DeskAssumption DEF RowPassed

LEMMA InsertLetterKeeps ==
    ASSUME IInv, NEW r \in Requests, InsertLetter(r)
    PROVE  IInv'
<1> DEFINE s == Closed(r, "done")
           row == RowOf(r)
           tone == req[r].topic
<1>1. /\ req[r].stage = "writing" /\ req[r].what = "letter" /\ Goes(r, s)
      /\ letters' = [letters EXCEPT ![tone] = row] /\ extracted' = TRUE
      /\ UNCHANGED <<version, profile, facts, answers, applications, followups>>
  BY DEF InsertLetter, Stage, Ends, Closed
<1>2. row \in Acceptable /\ row \in Row /\ tone \in Tones
  <2> HIDE DEF IInv
  <2>1. RowPassed(r) /\ KindFits(req[r])
    BY <1>1, WrittenPassed DEF Written3
  <2> QED
    BY <1>1, <2>1 DEF RowPassed, KindFits
<1>3. s \in Fields /\ Fit(s) /\ Stands(s, version', answers')
  <2> HIDE DEF IInv
  <2>1. ~ Viewing(r)
    BY <1>1 DEF Viewing
  <2> QED
    BY <2>1, Closing
<1> HIDE DEF s, row, tone
<1>4. req' \in [Requests -> Fields] /\ Fitting'
  <2> HIDE DEF IInv
  <2> QED
    BY <1>1, <1>3, Moves
<1>5. Tabled'
  BY <1>1, <1>2 DEF IInv, Tabled
<1>6. Passed'
  BY <1>1, <1>2 DEF IInv, Tabled, Passed
<1>7. FollowupsDated'
  BY <1>1 DEF IInv, FollowupsDated
<1> QED
  BY <1>4, <1>5, <1>6, <1>7 DEF IInv

(* The date of a follow-up.                                                *)
DatedRow(f) ==
    /\ f.applied \in Days
    /\ f.due > f.applied
    /\ f.row.kind = "post_apply" => /\ IsBusinessDay(f.due)
                                    /\ BusinessDaysBetween(f.applied, f.due) = 5
    /\ f.row.kind = "post_interview" => f.due = f.applied + 1
    /\ f.row.kind = "checkin" => /\ IsBusinessDay(f.due)
                                 /\ BusinessDaysBetween(f.applied, f.due) = 10

LEMMA DueDates ==
    ASSUME NEW kind \in FollowupKinds, NEW applied \in Days
    PROVE  LET due == DueDate(kind, applied)
           IN  /\ due \in Nat /\ due > applied
               /\ kind = "post_apply" => /\ IsBusinessDay(due)
                                         /\ BusinessDaysBetween(applied, due) = 5
               /\ kind = "post_interview" => due = applied + 1
               /\ kind = "checkin" => /\ IsBusinessDay(due)
                                      /\ BusinessDaysBetween(applied, due) = 10
<1>1. applied \in Nat /\ applied # None
  BY DeskAssumption
<1>2. CASE kind = "post_apply"
  <2>1. DueDate(kind, applied) = AddBusinessDays(applied, 5)
    BY <1>1, <1>2 DEF DueDate
  <2> QED
    BY <1>1, <1>2, <2>1, BusinessDaysAdded
<1>3. CASE kind = "post_interview"
  <2>1. DueDate(kind, applied) = applied + 1
    BY <1>1, <1>3 DEF DueDate
  <2> QED
    BY <1>1, <1>3, <2>1
<1>4. CASE kind = "checkin"
  <2>1. DueDate(kind, applied) = AddBusinessDays(applied, 10)
    BY <1>1, <1>4 DEF DueDate
  <2> QED
    BY <1>1, <1>4, <2>1, BusinessDaysAdded
<1> QED
  BY <1>2, <1>3, <1>4 DEF FollowupKinds

(* The row that a follow-up inserts.                                       *)
FollowupOf(r) ==
    [application |-> req[r].application, row |-> RowOf(r), applied |-> req[r].applied,
     due |-> DueDate(req[r].kind, req[r].applied)]

LEMMA FollowupMade ==
    ASSUME IInv, NEW r \in Requests, req[r].stage = "writing", req[r].what = "followup"
    PROVE  FollowupOf(r) \in Followup /\ DatedRow(FollowupOf(r))
<1> DEFINE row == RowOf(r)
           due == DueDate(req[r].kind, req[r].applied)
           f == [application |-> req[r].application, row |-> row,
                 applied |-> req[r].applied, due |-> due]
<1>1. row \in Row /\ req[r].kind \in FollowupKinds /\ row.kind = req[r].kind
  <2> HIDE DEF IInv
  <2>1. RowPassed(r) /\ KindFits(req[r])
    BY WrittenPassed DEF Written3
  <2>2. req[r].kind \in FollowupKinds
    BY <2>1 DEF KindFits
  <2>3. row.kind = req[r].kind
    BY DEF RowOf, DraftOf, ProseRow
  <2> QED
    BY <2>1, <2>2, <2>3 DEF RowPassed
<1>2. req[r].applied \in Days /\ req[r].application \in Nat
  <2>1. req[r] \in Fields /\ Fit(req[r])
    BY SessionOf
  <2>2. req[r].applied \in Dates /\ req[r].application \in Nat
    BY <2>1 DEF Fields
  <2>3. req[r].applied # None
    BY <2>1 DEF Fit
  <2> QED
    BY <2>2, <2>3 DEF Dates
<1>3. f \in Followup /\ DatedRow(f)
  <2>1. /\ due \in Nat /\ due > req[r].applied
        /\ req[r].kind = "post_apply" => /\ IsBusinessDay(due)
                                         /\ BusinessDaysBetween(req[r].applied, due) = 5
        /\ req[r].kind = "post_interview" => due = req[r].applied + 1
        /\ req[r].kind = "checkin" => /\ IsBusinessDay(due)
                                      /\ BusinessDaysBetween(req[r].applied, due) = 10
    BY <1>1, <1>2, DueDates
  <2> HIDE DEF row, due
  <2>2. req[r].applied \in Nat
    BY <1>2, DeskAssumption
  <2> QED
    BY <1>1, <1>2, <2>1, <2>2 DEF Followup, DatedRow
<1> QED
  BY <1>3 DEF FollowupOf

LEMMA InsertFollowupKeeps ==
    ASSUME IInv, NEW r \in Requests, InsertFollowup(r)
    PROVE  IInv'
<1> DEFINE s == Closed(r, "done")
           f == FollowupOf(r)
<1>1. /\ req[r].stage = "writing" /\ req[r].what = "followup" /\ Goes(r, s)
      /\ followups' = [followups EXCEPT ![r] = f] /\ extracted' = TRUE
      /\ UNCHANGED <<version, profile, facts, answers, letters, applications>>
  BY DEF InsertFollowup, Stage, Ends, Closed, FollowupOf
<1>2. f \in Followup /\ DatedRow(f)
  <2> HIDE DEF IInv
  <2> QED
    BY <1>1, FollowupMade
<1>3. s \in Fields /\ Fit(s) /\ Stands(s, version', answers')
  <2> HIDE DEF IInv
  <2>1. ~ Viewing(r)
    BY <1>1 DEF Viewing
  <2> QED
    BY <2>1, Closing
<1> HIDE DEF s, f
<1>4. req' \in [Requests -> Fields] /\ Fitting'
  <2> HIDE DEF IInv
  <2> QED
    BY <1>1, <1>3, Moves
<1>5. Tabled'
  BY <1>1, <1>2 DEF IInv, Tabled
<1>6. Passed'
  BY <1>1 DEF IInv, Passed
<1>7. FollowupsDated'
  <2>1. ASSUME NEW q \in Requests, followups'[q] # None PROVE DatedRow(followups'[q])
    <3>1. CASE q = r
      BY <1>1, <1>2, <3>1 DEF IInv, Tabled
    <3>2. CASE q # r
      BY <1>1, <2>1, <3>2 DEF IInv, Tabled, FollowupsDated, DatedRow
    <3> QED
      BY <3>1, <3>2
  <2> QED
    BY <2>1 DEF FollowupsDated, DatedRow
<1> QED
  BY <1>4, <1>5, <1>6, <1>7 DEF IInv

LEMMA CommitKeeps ==
    ASSUME IInv, NEW r \in Requests, CommitAnswer(r)
    PROVE  IInv'
<1> DEFINE p == req[r]
           row == RowOf(r)
           s == IF Viewing(r) THEN ReturnedOf(r, row) ELSE Closed(r, "done")
<1>1. /\ p.stage = "flushed" /\ Goes(r, s)
      /\ answers' = [answers EXCEPT ![p.topic] = row]
      /\ UNCHANGED <<version, profile, facts, letters, applications, followups>>
  BY DEF CommitAnswer, Stage, Ends, Closed, Returns, ReturnedOf
<1>2. extracted' \in BOOLEAN
  BY Zenon DEF CommitAnswer
<1>3. row \in Acceptable /\ row \in Row /\ row # None /\ KindFits(p)
  <2> HIDE DEF IInv
  <2> QED
    BY <1>1, WrittenPassed DEF Written3, RowPassed
<1>4. p \in Fields /\ Fit(p)
  BY SessionOf
<1>5. p.topic \in Questions
  <2>1. p.what \in {"ask", "view", "regenerate"}
    BY <1>1, <1>4 DEF Fit
  <2> QED
    BY <1>3, <2>1 DEF KindFits
<1>6. /\ \A q \in Questions : answers[q] # None => answers'[q] # None
      /\ answers'[p.topic] = row
  BY <1>1, <1>3, <1>5 DEF IInv, Tabled
<1>7. s \in Fields /\ Fit(s) /\ Stands(s, version', answers')
  <2>1. CASE Viewing(r)
    <3> DEFINE u == ReturnedOf(r, row)
    <3>1. row \in Shows
      BY <1>3 DEF Shows
    <3>2. /\ u \in Fields
          /\ u.stage = "done" /\ u.what = p.what /\ u.topic = p.topic /\ ~ u.cached
          /\ u.profile = p.profile /\ u.failed = p.failed /\ u.shown = row
      BY <3>1, Returning
    <3>3. s = u
      BY <2>1
    <3> HIDE DEF u, s, row, p
    <3>4. p.profile \in Names
      BY <1>1, <1>4 DEF Fit, Doing
    <3>5. Fit(u)
      BY <1>1, <1>3, <1>5, <3>2, <3>4 DEF Fit, Doing, Written3
    <3>6. Stands(u, version', answers')
      BY <1>3, <1>6, <3>2 DEF Stands
    <3> QED
      BY <3>2, <3>3, <3>5, <3>6
  <2>2. CASE ~ Viewing(r)
    <3>1. s = Closed(r, "done")
      BY <2>2
    <3> HIDE DEF s, IInv
    <3> QED
      BY <2>2, <3>1, Closing
  <2> QED
    BY <2>1, <2>2
<1> HIDE DEF s, row, p
<1>8. req' \in [Requests -> Fields] /\ Fitting'
  <2> HIDE DEF IInv
  <2> QED
    BY <1>1, <1>6, <1>7, Moves
<1>9. Tabled'
  BY <1>1, <1>2, <1>3, <1>5, Zenon DEF IInv, Tabled
<1>10. Passed'
  BY <1>1, <1>3, <1>5 DEF IInv, Tabled, Passed
<1>11. FollowupsDated'
  BY <1>1 DEF IInv, FollowupsDated
<1> QED
  BY <1>8, <1>9, <1>10, <1>11 DEF IInv

LEMMA EnsureKeeps ==
    ASSUME IInv, NEW r \in Requests, NEW what \in {"view", "regenerate"}, NEW name \in Names,
           EnsureVersion(r, what, name)
    PROVE  IInv'
<1> DEFINE s == [Unused EXCEPT !.stage = "lettering", !.what = what, !.tailored = version',
                               !.profile = profile]
<1>1. /\ version' = IF version = None THEN name ELSE version
      /\ extracted' = TRUE /\ Goes(r, s)
      /\ UNCHANGED <<profile, facts, answers, letters, applications, followups>>
  BY DEF EnsureVersion
<1>2. version' \in Names /\ version' # None /\ profile \in Names
  BY <1>1, DeskAssumption DEF IInv, Tabled
<1>3. /\ version' \in Owners /\ profile \in Owners /\ what \in Whats
      /\ "lettering" \in Stages
  BY <1>2 DEF Owners, Whats, Stages
<1>4. /\ s \in Fields /\ s.stage = "lettering" /\ s.what = what /\ s.profile = profile
      /\ s.tailored = version' /\ ~ s.cached
  <2> DEFINE v == version'
  <2>1. v \in Owners
    BY <1>3
  <2> HIDE DEF v
  <2>2. [Unused EXCEPT !.stage = "lettering", !.what = what, !.tailored = v,
                       !.profile = profile] \in Fields
    BY <1>3, <2>1, UnusedTyped DEF Fields
  <2>3. s \in Fields
    BY <2>2 DEF v
  <2> QED
    BY <2>3 DEF Unused
<1> HIDE DEF s
<1>5. ~ Finished(s)
  BY <1>4 DEF Finished
<1>6. Fit(s)
  BY <1>2, <1>4, <1>5 DEF Fit, Doing, Written3
<1>7. Stands(s, version', answers')
  BY <1>2, <1>4, <1>5 DEF Stands
<1>8. req' \in [Requests -> Fields] /\ Fitting'
  <2> HIDE DEF IInv
  <2>1. answers' = answers
    BY <1>1
  <2> QED
    BY <1>1, <1>2, <1>4, <1>6, <1>7, <2>1, Moves
<1>9. Tabled'
  BY <1>1, <1>2 DEF IInv, Tabled
<1>10. Passed'
  BY <1>1 DEF IInv, Passed
<1>11. FollowupsDated'
  BY <1>1 DEF IInv, FollowupsDated
<1> QED
  BY <1>8, <1>9, <1>10, <1>11 DEF IInv

LEMMA InsertApplicationKeeps ==
    ASSUME IInv, NEW r \in Requests, InsertApplication(r)
    PROVE  IInv'
<1> DEFINE s == Closed(r, "done")
<1>1. /\ req[r].stage = "tracking" /\ Goes(r, s)
      /\ applications' = Append(applications, None)
      /\ UNCHANGED <<version, profile, facts, extracted, answers, letters, followups>>
  BY DEF InsertApplication, Stage, Ends, Closed
<1>2. s \in Fields /\ Fit(s) /\ Stands(s, version', answers')
  <2>1. ~ Viewing(r)
    BY <1>1, SessionOf DEF Fit, Viewing
  <2> HIDE DEF IInv
  <2> QED
    BY <2>1, Closing
<1> HIDE DEF s
<1>3. req' \in [Requests -> Fields] /\ Fitting'
  <2> HIDE DEF IInv
  <2> QED
    BY <1>1, <1>2, Moves
<1>4. Tabled'
  BY <1>1 DEF IInv, Tabled
<1>5. Passed'
  BY <1>1 DEF IInv, Passed
<1>6. FollowupsDated'
  BY <1>1 DEF IInv, FollowupsDated
<1> QED
  BY <1>3, <1>4, <1>5, <1>6 DEF IInv

(* The session that a plan of the fields leads to: nothing to answer, an   *)
(* answer to write, or one to reuse.                                       *)
Planned(r) ==
    [req[r] EXCEPT !.stage = "returning", !.facts = facts, !.profile = profile,
                   !.tailored = version]
AskingFor(r, field) ==
    [Planned(r) EXCEPT !.kind = field.asks, !.topic = field.key,
                       !.cached = answers[field.key] # None]

LEMMA PlannedFits ==
    ASSUME IInv, NEW r \in Requests, req[r].stage = "lettering"
    PROVE  LET s == Planned(r)
           IN  /\ s \in Fields
               /\ s.stage = "returning" /\ s.what = req[r].what
               /\ s.what \in {"view", "regenerate"}
               /\ s.profile \in Names /\ s.tailored \in Names
<1> DEFINE p == req[r]
           s == Planned(r)
<1>1. p \in Fields /\ Fit(p) /\ Stands(p, version, answers)
  BY SessionOf
<1>2. version \in Names /\ profile \in Names /\ facts \in FactSets
  BY <1>1 DEF Stands, IInv, Tabled
<1>3. version \in Owners /\ profile \in Owners /\ facts \in Knowns /\ "returning" \in Stages
  BY <1>2 DEF Owners, Knowns, Stages
<1>4. /\ s \in Fields
      /\ s.stage = "returning" /\ s.what = p.what /\ s.profile = profile /\ s.tailored = version
  BY <1>1, <1>3 DEF Planned, Fields
<1>5. p.what \in {"view", "regenerate"}
  BY <1>1 DEF Fit
<1> QED
  BY <1>2, <1>4, <1>5

LEMMA AskingFits ==
    ASSUME IInv, NEW r \in Requests, req[r].stage = "lettering",
           NEW field \in QuestionsOf(Ats)
    PROVE  LET s == AskingFor(r, field)
           IN  /\ s \in Fields
               /\ s.stage = "returning" /\ s.what = req[r].what
               /\ s.what \in {"view", "regenerate"}
               /\ s.profile \in Names /\ s.tailored \in Names
               /\ s.kind = field.asks /\ s.kind \in ShortAnswerKinds
               /\ s.topic = field.key /\ s.topic \in Questions
               /\ s.cached = (answers[field.key] # None)
<1> DEFINE cached == answers[field.key] # None
           q == Planned(r)
           s == [q EXCEPT !.kind = field.asks, !.topic = field.key, !.cached = cached]
<1>1. /\ q \in Fields
      /\ q.stage = "returning" /\ q.what = req[r].what
      /\ q.what \in {"view", "regenerate"}
      /\ q.profile \in Names /\ q.tailored \in Names
  BY PlannedFits
<1>2. field.key \in Questions /\ field.asks \in ShortAnswerKinds
  BY QuestionsFit
<1>3. field.asks \in Proses /\ field.key \in Topics /\ cached \in Flags
  BY <1>2, KindsAreLimited DEF Proses, Topics, Flags
<1>4. s = AskingFor(r, field)
  BY DEF AskingFor
<1> HIDE DEF cached, q
<1>5. /\ s \in Fields
      /\ s.stage = q.stage /\ s.what = q.what /\ s.profile = q.profile
      /\ s.tailored = q.tailored /\ s.kind = field.asks /\ s.topic = field.key
      /\ s.cached = cached
  BY <1>1, <1>3 DEF Fields
<1> HIDE DEF s
<1> QED
  BY <1>1, <1>2, <1>4, <1>5 DEF cached

LEMMA PlansTo ==
    ASSUME IInv, NEW r \in Requests, NEW draft \in Drafts, PlanFields(r, draft)
    PROVE  \E s \in Fields : Goes(r, s) /\ Fit(s) /\ Stands(s, version, answers)
<1>1. req[r].stage = "lettering"
  BY DEF PlanFields, Stage
<1>2. CASE QuestionsOf(Ats) = {} /\ Goes(r, Planned(r))
  <2> DEFINE s == Planned(r)
  <2>1. /\ s \in Fields
        /\ s.stage = "returning" /\ s.what \in {"view", "regenerate"} /\ s.profile \in Names
    BY <1>1, PlannedFits
  <2> HIDE DEF s
  <2>2. ~ Finished(s)
    BY <1>2 DEF Finished
  <2>3. Fit(s)
    BY <2>1, <2>2 DEF Fit, Doing, Written3
  <2>4. Stands(s, version, answers)
    BY <2>1, <2>2 DEF Stands
  <2> QED
    BY <1>2, <2>1, <2>3, <2>4 DEF s
<1>3. ASSUME NEW field \in QuestionsOf(Ats),
             GeneratesIf(answers[field.key] # None, req[r].what),
             Goes(r, [AskingFor(r, field) EXCEPT !.stage = "grounding"])
      PROVE  \E s \in Fields : Goes(r, s) /\ Fit(s) /\ Stands(s, version, answers)
  <2> DEFINE q == AskingFor(r, field)
             s == [q EXCEPT !.stage = "grounding"]
  <2>1. /\ q \in Fields
        /\ q.what = req[r].what /\ q.what \in {"view", "regenerate"}
        /\ q.profile \in Names /\ q.tailored \in Names
        /\ q.kind \in ShortAnswerKinds /\ q.topic \in Questions
        /\ q.cached = (answers[field.key] # None)
    BY <1>1, AskingFits
  <2>2. q.cached => q.what = "regenerate"
    BY <1>3, <2>1 DEF GeneratesIf
  <2>3. "grounding" \in Stages /\ Goes(r, s)
    BY <1>3 DEF Stages
  <2> HIDE DEF q
  <2>4. /\ s \in Fields /\ s.stage = "grounding"
        /\ s.what = q.what /\ s.kind = q.kind /\ s.topic = q.topic /\ s.profile = q.profile
        /\ s.tailored = q.tailored /\ s.cached = q.cached
    BY <2>1, <2>3 DEF Fields
  <2> HIDE DEF s
  <2>5. ~ Finished(s)
    BY <2>4 DEF Finished
  <2>6. Fit(s)
    BY <2>1, <2>2, <2>4, <2>5 DEF Fit, KindFits, Doing, Written3
  <2>7. Stands(s, version, answers)
    BY <2>4, <2>5 DEF Stands
  <2> QED
    BY <2>3, <2>4, <2>6, <2>7
<1>4. ASSUME NEW field \in QuestionsOf(Ats),
             ~ GeneratesIf(answers[field.key] # None, req[r].what),
             Goes(r, [AskingFor(r, field) EXCEPT !.shown = answers[field.key]])
      PROVE  \E s \in Fields : Goes(r, s) /\ Fit(s) /\ Stands(s, version, answers)
  <2> DEFINE q == AskingFor(r, field)
             answer == answers[field.key]
             s == [q EXCEPT !.shown = answer]
  <2>1. /\ q \in Fields
        /\ q.stage = "returning" /\ q.what \in {"view", "regenerate"}
        /\ q.profile \in Names /\ q.topic = field.key /\ q.topic \in Questions
    BY <1>1, AskingFits
  <2>2. answer # None
    BY <1>4 DEF GeneratesIf
  <2>3. answer \in Acceptable /\ answer \in Shows
    BY <2>1, <2>2 DEF IInv, Passed, Tabled, Shows
  <2>4. Goes(r, s)
    BY <1>4
  <2>5. \A v : [q EXCEPT !.shown = v].topic = q.topic
    BY <2>1 DEF Fields
  <2> HIDE DEF q
  <2>6. s.topic = field.key /\ answers[s.topic] # None
    BY <2>1, <2>2, <2>5
  <2> HIDE DEF answer
  <2>7. /\ s \in Fields /\ s.stage = "returning"
        /\ s.what = q.what /\ s.topic = q.topic /\ s.profile = q.profile /\ s.shown = answer
    BY <2>1, <2>3 DEF Fields
  <2> HIDE DEF s
  <2>8. Fit(s)
    BY <2>1, <2>3, <2>7 DEF Fit, Doing, Written3
  <2>9. Stands(s, version, answers)
    BY <2>6, <2>7 DEF Stands
  <2> QED
    BY <2>4, <2>7, <2>8, <2>9
<1>5. \/ QuestionsOf(Ats) = {} /\ Goes(r, Planned(r))
      \/ \E field \in QuestionsOf(Ats) :
           IF GeneratesIf(answers[field.key] # None, req[r].what)
           THEN Goes(r, [AskingFor(r, field) EXCEPT !.stage = "grounding"])
           ELSE Goes(r, [AskingFor(r, field) EXCEPT !.shown = answers[field.key]])
  BY Zenon DEF PlanFields, Planned, AskingFor
<1> QED
  BY <1>2, <1>3, <1>4, <1>5

LEMMA PlanKeeps ==
    ASSUME IInv, NEW r \in Requests, NEW draft \in Drafts, PlanFields(r, draft)
    PROVE  IInv'
<1>1. UNCHANGED <<version, profile, facts, extracted, answers, applications, followups>>
  BY DEF PlanFields
<1>2. \/ letters' = letters
      \/ \E row \in Acceptable : letters' = [letters EXCEPT ![Standard] = row]
  BY DEF PlanFields
<1>3. req' \in [Requests -> Fields] /\ Fitting'
  <2> HIDE DEF IInv
  <2>1. PICK s \in Fields : Goes(r, s) /\ Fit(s) /\ Stands(s, version, answers)
    BY PlansTo
  <2>2. Stands(s, version', answers')
    BY <1>1, <2>1
  <2> QED
    BY <1>1, <2>1, <2>2, Moves
<1>4. Tabled' /\ Passed'
  <2>1. CASE letters' = letters
    BY <1>1, <2>1 DEF IInv, Tabled, Passed
  <2>2. ASSUME NEW row \in Acceptable, letters' = [letters EXCEPT ![Standard] = row]
        PROVE  Tabled' /\ Passed'
    <3>1. row \in Row /\ Standard \in Tones
      BY AcceptableRows, DeskAssumption
    <3>2. letters' \in [Tones -> Row \cup {None}]
      BY <2>2, <3>1 DEF IInv, Tabled
    <3>3. Tabled'
      BY <1>1, <3>2 DEF IInv, Tabled
    <3>4. Passed'
      BY <1>1, <2>2, <3>1 DEF IInv, Tabled, Passed
    <3> QED
      BY <3>3, <3>4
  <2> QED
    BY <1>2, <2>1, <2>2
<1>5. FollowupsDated'
  BY <1>1 DEF IInv, FollowupsDated
<1> QED
  BY <1>3, <1>4, <1>5 DEF IInv

-----------------------------------------------------------------------------
(* What others do. *)

LEMMA OthersKeep ==
    ASSUME IInv, Others
    PROVE  IInv'
<1>1. ASSUME NEW a \in DOMAIN applications, NEW applied \in Days \cup {None},
             UpdateApplication(a, applied)
      PROVE  IInv'
  <2>1. /\ applications' = [applications EXCEPT ![a] = applied]
        /\ UNCHANGED <<version, profile, facts, extracted, answers, letters, followups, req>>
    BY <1>1 DEF UpdateApplication
  <2>2. applications' \in Seq(Days \cup {None})
    BY <2>1 DEF IInv, Tabled
  <2> QED
    BY <2>1, <2>2 DEF IInv, Tabled, Fitting, Passed, FollowupsDated
<1>2. ASSUME NEW filled \in FactSets \ {{}}, WriteFacts(filled)
      PROVE  IInv'
  <2>1. /\ facts' = filled
        /\ UNCHANGED <<version, profile, extracted, answers, letters, applications, followups, req>>
    BY <1>2 DEF WriteFacts
  <2> QED
    BY <2>1 DEF IInv, Tabled, Fitting, Passed, FollowupsDated
<1>3. ASSUME NEW name \in Names, EditProfile(name)
      PROVE  IInv'
  <2>1. /\ profile' = name
        /\ UNCHANGED <<version, facts, extracted, answers, letters, applications, followups, req>>
    BY <1>3 DEF EditProfile
  <2> QED
    BY <2>1 DEF IInv, Tabled, Fitting, Passed, FollowupsDated
<1>4. ASSUME NEW name \in Names, RewriteVersion(name)
      PROVE  IInv'
  <2>1. /\ version' = name /\ name # None
        /\ UNCHANGED <<profile, facts, extracted, answers, letters, applications, followups, req>>
    BY <1>4, DeskAssumption DEF RewriteVersion
  <2>2. Tabled' /\ Passed' /\ FollowupsDated'
    BY <2>1 DEF IInv, Tabled, Passed, FollowupsDated
  <2>3. Fitting'
    BY <2>1 DEF IInv, Fitting, Stands
  <2> QED
    BY <2>1, <2>2, <2>3 DEF IInv
<1>5. ASSUME NEW draft \in Drafts, RewriteLetter(draft)
      PROVE  IInv'
  <2>1. PICK row \in Acceptable : letters' = [letters EXCEPT ![Standard] = row]
    BY <1>5 DEF RewriteLetter
  <2>2. UNCHANGED <<version, profile, facts, extracted, answers, applications, followups, req>>
    BY <1>5 DEF RewriteLetter
  <2>3. row \in Row /\ Standard \in Tones
    BY AcceptableRows, DeskAssumption
  <2>4. letters' \in [Tones -> Row \cup {None}]
    BY <2>1, <2>3 DEF IInv, Tabled
  <2>5. Tabled'
    BY <2>2, <2>4 DEF IInv, Tabled
  <2>6. Passed'
    BY <2>1, <2>2, <2>3 DEF IInv, Tabled, Passed
  <2>7. Fitting' /\ FollowupsDated'
    BY <2>2 DEF IInv, Fitting, FollowupsDated
  <2> QED
    BY <2>2, <2>5, <2>6, <2>7 DEF IInv
<1> QED
  BY <1>1, <1>2, <1>3, <1>4, <1>5 DEF Others

-----------------------------------------------------------------------------
(* The theorems. *)

LEMMA InitInv == Init => Inv
<1> SUFFICES ASSUME Init PROVE Inv
  OBVIOUS
<1>1. Tabled
  <2>1. << >> \in Seq(Days \cup {None}) /\ \A d \in Days : <<d>> \in Seq(Days \cup {None})
    OBVIOUS
  <2>2. applications = << >> \/ \E d \in Days : applications = <<d>>
    BY DEF Init
  <2> QED
    BY <2>1, <2>2 DEF Init, Tabled
<1>2. req \in [Requests -> Fields]
  BY UnusedTyped DEF Init
<1>3. Fitting
  <2> SUFFICES Fit(Unused) /\ Stands(Unused, version, answers)
    BY DEF Fitting, Init
  <2>1. Unused.stage = "new" /\ Unused.what = "none" /\ ~ Unused.cached
    BY DEF Unused
  <2> QED
    BY <2>1 DEF Fit, Stands, Finished, Doing, Written3
<1>4. Passed
  BY DEF Init, Passed
<1>5. FollowupsDated
  BY DEF Init, FollowupsDated
<1>6. edits \in 0 .. MaxEdits
  BY DeskAssumption DEF Init
<1> QED
  BY <1>1, <1>2, <1>3, <1>4, <1>5, <1>6 DEF Inv, IInv

LEMMA StepsKeep ==
    ASSUME IInv, NEW r \in Requests, StartRequest(r) \/ Step(r) \/ Fails(r)
    PROVE  IInv'
<1> HIDE DEF IInv
<1>1. CASE StartRequest(r)
  <2>1. ASSUME NEW what \in {"view", "regenerate"}, NEW name \in Names,
               EnsureVersion(r, what, name)
        PROVE  IInv'
    BY <2>1, EnsureKeeps
  <2> QED
    BY <1>1, <2>1, StartsKeep, TrackKeeps DEF StartRequest
<1>2. CASE Step(r)
  <2>1. CASE ExtractRequirements(r) \/ StartDrafting(r) \/ OutputInvalid(r)
    BY <2>1, ExtractKeeps, StartDraftingKeeps, OutputInvalidKeeps
  <2>2. ASSUME NEW draft \in Drafts, Draft(r, draft) \/ PlanFields(r, draft)
        PROVE  IInv'
    BY <2>2, DraftKeeps, PlanKeeps
  <2>3. CASE InsertLetter(r) \/ LetterExists(r) \/ InsertFollowup(r)
    BY <2>3, InsertLetterKeeps, RefusedKeeps, InsertFollowupKeeps
  <2>4. CASE LookAgain(r) \/ FlushAnswer(r) \/ AnswerExists(r) \/ CommitAnswer(r)
    BY <2>4, LookAgainKeeps, FlushKeeps, RefusedKeeps, CommitKeeps
  <2>5. CASE ReturnKit(r) \/ InsertApplication(r)
    BY <2>5, ReturnKeeps, InsertApplicationKeeps
  <2> QED
    BY <1>2, <2>1, <2>2, <2>3, <2>4, <2>5 DEF Step
<1>3. CASE Fails(r)
  BY <1>3, RefusedKeeps
<1> QED
  BY <1>1, <1>2, <1>3

LEMMA NextInv == Inv /\ [Next]_<<vars, edits>> => Inv'
<1> SUFFICES ASSUME Inv, [Next]_<<vars, edits>> PROVE Inv'
  OBVIOUS
<1>1. CASE Next
  <2>1. ASSUME NEW r \in Requests, StartRequest(r) \/ Step(r) \/ Fails(r), edits' = edits
        PROVE  Inv'
    BY <2>1, StepsKeep DEF Inv
  <2>2. CASE Others /\ edits < MaxEdits /\ edits' = edits + 1
    <3>1. IInv'
      BY <2>2, OthersKeep DEF Inv
    <3>2. edits' \in 0 .. MaxEdits
      BY <2>2, DeskAssumption DEF Inv
    <3> QED
      BY <3>1, <3>2 DEF Inv
  <2> QED
    BY <1>1, <2>1, <2>2 DEF Next
<1>2. CASE UNCHANGED <<vars, edits>>
  BY <1>2 DEF vars, Inv, IInv, Tabled, Fitting, Passed, FollowupsDated
<1> QED
  BY <1>1, <1>2

LEMMA Invariant == Spec => []Inv
BY InitInv, NextInv, PTL DEF Spec

(* Every row and every session stays of its type.                          *)
THEOREM DeskTyped == Spec => []TypeOK
<1>1. Inv => TypeOK
  BY SessionFields DEF Inv, IInv, Tabled, TypeOK
<1> QED
  BY <1>1, Invariant, PTL

(* Follow-ups are due as many business days after the application as their *)
(* kind waits (followup.py _send_after), whatever becomes of the           *)
(* application's date while they are drafted.                              *)
THEOREM FollowupsAreDated == Spec => []FollowupsDated
<1>1. Inv => FollowupsDated
  BY DEF Inv, IInv
<1> QED
  BY <1>1, Invariant, PTL

(* Each insert is one rewrite of what is shown.                            *)
Kept == UNCHANGED <<answers, letters, followups>>

LEMMA PlacesAre ==
    \A p \in Places :
        \/ \E q \in Questions : p = <<"answer", q>>
        \/ \E t \in Tones : p = <<"letter", t>>
        \/ \E r \in Requests : p = <<"followup", r>>
BY DEF Places

LEMMA ShownAt ==
    /\ \A q \in Questions : <<"answer", q>> \in Places /\ Shown[<<"answer", q>>] = answers[q]
    /\ \A t \in Tones : <<"letter", t>> \in Places /\ Shown[<<"letter", t>>] = letters[t]
    /\ \A r \in Requests :
         /\ <<"followup", r>> \in Places
         /\ Shown[<<"followup", r>>] =
              IF followups[r] = None THEN None ELSE followups[r].row
<1>1. ASSUME NEW q \in Questions
      PROVE  <<"answer", q>> \in Places /\ Shown[<<"answer", q>>] = answers[q]
  BY DEF Places, Shown
<1>2. ASSUME NEW t \in Tones
      PROVE  <<"letter", t>> \in Places /\ Shown[<<"letter", t>>] = letters[t]
  BY DEF Places, Shown
<1>3. ASSUME NEW r \in Requests
      PROVE  /\ <<"followup", r>> \in Places
             /\ Shown[<<"followup", r>>] =
                  IF followups[r] = None THEN None ELSE followups[r].row
  BY DEF Places, Shown
<1> QED
  BY <1>1, <1>2, <1>3

LEMMA ShownIsFunction == Shown = [p \in Places |-> Shown[p]]
BY DEF Shown

(* Only one place changes, to a row that may stand there.                  *)
LEMMA OneRewrite ==
    ASSUME NEW p \in Places, NEW row \in Acceptable, row.kind \in KindsAt(p),
           Shown'[p] = row, \A q \in Places \ {p} : Shown'[q] = Shown[q]
    PROVE  Truthful!VettedNext
<1>1. row \in Row
  BY AcceptableRows
<1>2. Shown' = [q \in Places |-> Shown'[q]] /\ Shown = [q \in Places |-> Shown[q]]
  BY DEF Shown
<1>3. Shown' = [Shown EXCEPT ![p] = Shown'[p]]
  BY <1>2
<1>4. Truthful!Rewrite(p)
  BY <1>1, <1>3 DEF Truthful!Rewrite, MayStand
<1> QED
  BY <1>4 DEF Truthful!VettedNext

LEMMA ShownNext ==
    /\ \A q \in Questions : Shown'[<<"answer", q>>] = answers'[q]
    /\ \A t \in Tones : Shown'[<<"letter", t>>] = letters'[t]
    /\ \A r \in Requests :
         Shown'[<<"followup", r>>] = IF followups'[r] = None THEN None ELSE followups'[r].row
<1>1. ASSUME NEW q \in Questions PROVE Shown'[<<"answer", q>>] = answers'[q]
  BY DEF Places, Shown
<1>2. ASSUME NEW t \in Tones PROVE Shown'[<<"letter", t>>] = letters'[t]
  BY DEF Places, Shown
<1>3. ASSUME NEW r \in Requests
      PROVE  Shown'[<<"followup", r>>] =
               IF followups'[r] = None THEN None ELSE followups'[r].row
  BY DEF Places, Shown
<1> QED
  BY <1>1, <1>2, <1>3

LEMMA KeptIsShown == Kept => Shown' = Shown
BY DEF Kept, Shown

LEMMA LetterRewritten ==
    ASSUME IInv, NEW tone \in Tones, NEW row \in Acceptable, row.kind = "letter",
           letters' = [letters EXCEPT ![tone] = row], UNCHANGED <<answers, followups>>
    PROVE  Truthful!VettedNext
<1> DEFINE p == <<"letter", tone>>
<1>1. p \in Places /\ row.kind \in KindsAt(p) /\ Shown'[p] = row
  BY ShownAt, ShownNext DEF IInv, Tabled, KindsAt
<1>2. ASSUME NEW q \in Places, q # p PROVE Shown'[q] = Shown[q]
  <2>1. CASE \E t \in Tones : q = <<"letter", t>>
    <3>1. PICK t \in Tones : q = <<"letter", t>>
      BY <2>1
    <3>2. letters'[t] = letters[t]
      BY <1>2, <3>1 DEF IInv, Tabled
    <3> QED
      BY <3>1, <3>2, ShownAt, ShownNext
  <2>2. CASE \E x \in Questions : q = <<"answer", x>>
    BY <2>2, ShownAt, ShownNext
  <2>3. CASE \E r \in Requests : q = <<"followup", r>>
    BY <2>3, ShownAt, ShownNext
  <2> QED
    BY <2>1, <2>2, <2>3, PlacesAre
<1> HIDE DEF p
<1> QED
  BY <1>1, <1>2, OneRewrite

LEMMA AnswerRewritten ==
    ASSUME IInv, NEW topic \in Questions, NEW row \in Acceptable,
           row.kind \in ShortAnswerKinds,
           answers' = [answers EXCEPT ![topic] = row], UNCHANGED <<letters, followups>>
    PROVE  Truthful!VettedNext
<1> DEFINE p == <<"answer", topic>>
<1>1. p \in Places /\ row.kind \in KindsAt(p) /\ Shown'[p] = row
  BY ShownAt, ShownNext DEF IInv, Tabled, KindsAt
<1>2. ASSUME NEW q \in Places, q # p PROVE Shown'[q] = Shown[q]
  <2>1. CASE \E x \in Questions : q = <<"answer", x>>
    <3>1. PICK x \in Questions : q = <<"answer", x>>
      BY <2>1
    <3>2. answers'[x] = answers[x]
      BY <1>2, <3>1 DEF IInv, Tabled
    <3> QED
      BY <3>1, <3>2, ShownAt, ShownNext
  <2>2. CASE \E t \in Tones : q = <<"letter", t>>
    BY <2>2, ShownAt, ShownNext
  <2>3. CASE \E r \in Requests : q = <<"followup", r>>
    BY <2>3, ShownAt, ShownNext
  <2> QED
    BY <2>1, <2>2, <2>3, PlacesAre
<1> HIDE DEF p
<1> QED
  BY <1>1, <1>2, OneRewrite

LEMMA FollowupRewritten ==
    ASSUME IInv, NEW r \in Requests, NEW row \in Acceptable, row.kind \in FollowupKinds,
           NEW f \in Followup, f.row = row,
           followups' = [followups EXCEPT ![r] = f], UNCHANGED <<answers, letters>>
    PROVE  Truthful!VettedNext
<1> DEFINE p == <<"followup", r>>
<1>0. f # None
  BY DeskAssumption
<1>1. p \in Places /\ row.kind \in KindsAt(p) /\ Shown'[p] = row
  BY <1>0, ShownAt, ShownNext DEF IInv, Tabled, KindsAt
<1>2. ASSUME NEW q \in Places, q # p PROVE Shown'[q] = Shown[q]
  <2>1. CASE \E x \in Requests : q = <<"followup", x>>
    <3>1. PICK x \in Requests : q = <<"followup", x>>
      BY <2>1
    <3>2. followups'[x] = followups[x]
      BY <1>2, <3>1 DEF IInv, Tabled
    <3> QED
      BY <3>1, <3>2, ShownAt, ShownNext
  <2>2. CASE \E t \in Tones : q = <<"letter", t>>
    BY <2>2, ShownAt, ShownNext
  <2>3. CASE \E x \in Questions : q = <<"answer", x>>
    BY <2>3, ShownAt, ShownNext
  <2> QED
    BY <2>1, <2>2, <2>3, PlacesAre
<1> HIDE DEF p
<1> QED
  BY <1>1, <1>2, OneRewrite

LEMMA RowKind == \A r \in Requests : RowOf(r).kind = req[r].kind
BY DEF RowOf, DraftOf, ProseRow

LEMMA InsertsVetted ==
    ASSUME IInv, NEW r \in Requests,
           InsertLetter(r) \/ InsertFollowup(r) \/ CommitAnswer(r)
    PROVE  Truthful!VettedNext
<1>1. CASE InsertLetter(r)
  <2>1. /\ req[r].stage = "writing" /\ req[r].what = "letter"
        /\ letters' = [letters EXCEPT ![req[r].topic] = RowOf(r)]
        /\ UNCHANGED <<answers, followups>>
    BY <1>1 DEF InsertLetter, Stage
  <2>2. RowPassed(r) /\ KindFits(req[r])
    <3> HIDE DEF IInv
    <3> QED
      BY <2>1, WrittenPassed DEF Written3
  <2>3. req[r].topic \in Tones /\ RowOf(r) \in Acceptable /\ RowOf(r).kind = "letter"
    BY <2>1, <2>2, RowKind DEF RowPassed, KindFits
  <2> HIDE DEF IInv
  <2> QED
    BY <2>1, <2>3, LetterRewritten
<1>2. CASE InsertFollowup(r)
  <2> DEFINE f == FollowupOf(r)
  <2>1. /\ req[r].stage = "writing" /\ req[r].what = "followup"
        /\ followups' = [followups EXCEPT ![r] = f]
        /\ UNCHANGED <<answers, letters>>
    BY <1>2 DEF InsertFollowup, Stage, FollowupOf
  <2>2. RowPassed(r) /\ KindFits(req[r])
    <3> HIDE DEF IInv
    <3> QED
      BY <2>1, WrittenPassed DEF Written3
  <2>3. RowOf(r) \in Acceptable /\ RowOf(r).kind \in FollowupKinds
    BY <2>1, <2>2, RowKind DEF RowPassed, KindFits
  <2>4. f \in Followup
    <3> HIDE DEF IInv
    <3> QED
      BY <2>1, FollowupMade
  <2>5. f.row = RowOf(r)
    BY DEF FollowupOf
  <2> HIDE DEF IInv, f
  <2> QED
    BY <2>1, <2>3, <2>4, <2>5, FollowupRewritten
<1>3. CASE CommitAnswer(r)
  <2>1. /\ req[r].stage = "flushed"
        /\ answers' = [answers EXCEPT ![req[r].topic] = RowOf(r)]
        /\ UNCHANGED <<letters, followups>>
    BY <1>3 DEF CommitAnswer, Stage
  <2>2. RowPassed(r) /\ KindFits(req[r]) /\ Fit(req[r])
    <3> HIDE DEF IInv
    <3> QED
      BY <2>1, WrittenPassed, SessionOf DEF Written3
  <2>3. /\ req[r].topic \in Questions /\ RowOf(r) \in Acceptable
        /\ RowOf(r).kind \in ShortAnswerKinds
    BY <2>1, <2>2, RowKind DEF RowPassed, KindFits, Fit
  <2> HIDE DEF IInv
  <2> QED
    BY <2>1, <2>3, AnswerRewritten
<1> QED
  BY <1>1, <1>2, <1>3

LEMMA LetterPlanned ==
    ASSUME NEW r \in Requests, NEW draft \in Drafts, PlanFields(r, draft)
    PROVE  \/ Kept
           \/ /\ UNCHANGED <<answers, followups>>
              /\ \E row \in Acceptable :
                   row.kind = "letter" /\ letters' = [letters EXCEPT ![Standard] = row]
BY DEF PlanFields, LetterRow, ProseRow, Kept

LEMMA StepVetted ==
    ASSUME IInv, [Next]_<<vars, edits>>
    PROVE  Truthful!VettedNext \/ Shown' = Shown
<1> HIDE DEF IInv
<1>1. ASSUME NEW r \in Requests, StartRequest(r) PROVE Kept
  BY <1>1 DEF StartRequest, Ask, WriteLetter, FollowUp, Begins, EnsureVersion, Track, tables, Kept
<1>2. ASSUME NEW r \in Requests, Fails(r) PROVE Kept
  BY <1>2 DEF Fails, tables, Kept
<1>3. ASSUME NEW r \in Requests, NEW draft \in Drafts, PlanFields(r, draft)
      PROVE  Truthful!VettedNext \/ Kept
  BY <1>3, LetterPlanned, LetterRewritten, DeskAssumption
<1>4. ASSUME NEW r \in Requests, Step(r) PROVE Truthful!VettedNext \/ Kept
  <2>1. ASSUME \/ ExtractRequirements(r) \/ StartDrafting(r) \/ OutputInvalid(r)
               \/ LetterExists(r) \/ LookAgain(r) \/ FlushAnswer(r) \/ AnswerExists(r)
               \/ ReturnKit(r) \/ InsertApplication(r)
        PROVE  Kept
    BY <2>1 DEF ExtractRequirements, StartDrafting, OutputInvalid, LetterExists, LookAgain,
                FlushAnswer, AnswerExists, ReturnKit, InsertApplication, tables, Kept
  <2>2. ASSUME NEW draft \in Drafts, Draft(r, draft) PROVE Kept
    BY <2>2 DEF Draft, tables, Kept
  <2>3. ASSUME InsertLetter(r) \/ InsertFollowup(r) \/ CommitAnswer(r)
        PROVE  Truthful!VettedNext
    BY <2>3, InsertsVetted
  <2> QED
    BY <1>3, <1>4, <2>1, <2>2, <2>3 DEF Step
<1>5. CASE Others
  <2>1. ASSUME NEW draft \in Drafts, RewriteLetter(draft)
        PROVE  Truthful!VettedNext \/ Kept
    <3>1. PICK row \in Acceptable :
            row.kind = "letter" /\ letters' = [letters EXCEPT ![Standard] = row]
      BY <2>1 DEF RewriteLetter, LetterRow, ProseRow
    <3>2. UNCHANGED <<answers, followups>>
      BY <2>1 DEF RewriteLetter
    <3> QED
      BY <3>1, <3>2, LetterRewritten, DeskAssumption
  <2>2. ASSUME NEW a \in DOMAIN applications, NEW applied \in Days \cup {None},
               UpdateApplication(a, applied)
        PROVE  Kept
    BY <2>2 DEF UpdateApplication, Kept
  <2>3. ASSUME NEW filled \in FactSets \ {{}}, WriteFacts(filled) PROVE Kept
    BY <2>3 DEF WriteFacts, Kept
  <2>4. ASSUME NEW name \in Names, RewriteVersion(name) \/ EditProfile(name) PROVE Kept
    BY <2>4 DEF RewriteVersion, EditProfile, Kept
  <2> QED
    BY <1>5, <2>1, <2>2, <2>3, <2>4, KeptIsShown DEF Others
<1>6. CASE UNCHANGED <<vars, edits>>
  <2>1. vars' = vars
    BY <1>6
  <2>2. Kept
    BY <2>1 DEF vars, Kept
  <2> QED
    BY <2>2, KeptIsShown
<1> QED
  BY <1>1, <1>2, <1>4, <1>5, <1>6, KeptIsShown DEF Next

(* Answers, letters and follow-ups are only ever replaced by text that     *)
(* passed the check of its kind (short_answers.py, cover_letter.py,        *)
(* followup.py), in whatever order requests draft, flush and commit.       *)
THEOREM DeskIsVetted == Spec => ImplementsVetted
<1>1. Init => Truthful!VettedInit
  BY DEF Init, Truthful!VettedInit, Shown, Places
<1>2. Inv /\ [Next]_<<vars, edits>> => [Truthful!VettedNext]_Shown
  BY StepVetted DEF Inv
<1> QED
  BY <1>1, <1>2, Invariant, PTL DEF Spec, ImplementsVetted, Truthful!VettedSpec

(* What a view that is done relies on gives what its checklist promises.   *)
LEMMA FailedQuestion ==
    ASSUME NEW known, NEW contact, NEW field \in QuestionsOf(Ats)
    PROVE  ResolvedStatus(field, known, contact, TRUE) = "error"
<1>1. field.asks # "nothing" /\ field.source = "generated"
  BY FieldsOfBoards DEF QuestionsOf
<1> QED
  BY <1>1 DEF ResolvedStatus, PlannedStatus

LEMMA StatusOf ==
    ASSUME NEW known, NEW contact, NEW failed \in BOOLEAN, NEW f \in FieldsOf(Ats)
    PROVE  LET status == ResolvedStatus(f, known, contact, failed)
           IN  /\ status # "needs_generation"
               /\ f.source = "answer_profile" =>
                    (status = "needs_user_input" <=> f.fact \notin known)
               /\ f.source = "profile" =>
                    (status = "needs_user_input" <=> f.fact \notin contact)
<1>1. f.source \in {"generated", "manual_only", "profile", "answer_profile"}
  BY FieldsOfBoards
<1>2. CASE f.source = "generated"
  BY <1>2 DEF ResolvedStatus, PlannedStatus
<1>3. CASE f.source = "manual_only"
  BY <1>3 DEF ResolvedStatus, PlannedStatus
<1>4. CASE f.source = "profile"
  <2> DEFINE planned == PlannedStatus(f, known, contact)
  <2>1. planned = IF f.fact \in contact THEN "ready" ELSE "needs_user_input"
    BY <1>4 DEF PlannedStatus
  <2>2. planned # "needs_generation"
    BY <2>1
  <2>3. ResolvedStatus(f, known, contact, failed) = planned
    BY <2>2 DEF ResolvedStatus
  <2> HIDE DEF planned
  <2>4. CASE f.fact \in contact
    BY <1>4, <2>1, <2>3, <2>4
  <2>5. CASE f.fact \notin contact
    BY <1>4, <2>1, <2>3, <2>5
  <2> QED
    BY <2>4, <2>5
<1>5. CASE f.source = "answer_profile"
  <2> DEFINE planned == PlannedStatus(f, known, contact)
  <2>1. planned = IF f.fact \in known THEN "ready" ELSE "needs_user_input"
    BY <1>5 DEF PlannedStatus
  <2>2. planned # "needs_generation"
    BY <2>1
  <2>3. ResolvedStatus(f, known, contact, failed) = planned
    BY <2>2 DEF ResolvedStatus
  <2> HIDE DEF planned
  <2>4. CASE f.fact \in known
    BY <1>5, <2>1, <2>3, <2>4
  <2>5. CASE f.fact \notin known
    BY <1>5, <2>1, <2>3, <2>5
  <2> QED
    BY <2>4, <2>5
<1> QED
  BY <1>1, <1>2, <1>3, <1>4, <1>5

LEMMA GapsAre ==
    ASSUME NEW known, NEW contact, NEW failed \in BOOLEAN
    PROVE  Gaps(Resolved(Ats, known, contact, failed)) =
             {f.fact : f \in {g \in FieldsOf(Ats) : g.source = "answer_profile"}} \ known
<1> DEFINE plan == Resolved(Ats, known, contact, failed)
           asked == {g \in FieldsOf(Ats) : g.source = "answer_profile"}
           open == {g \in DOMAIN plan : g.source = "answer_profile"
                                        /\ plan[g] = "needs_user_input"}
<1>1. open = {g \in asked : g.fact \notin known}
  BY StatusOf DEF Resolved
<1>2. Gaps(plan) = {f.fact : f \in open}
  BY DEF Gaps
<1> HIDE DEF plan, asked, open
<1>3. {f.fact : f \in open} = {f.fact : f \in asked} \ known
  BY <1>1
<1> QED
  BY <1>2, <1>3 DEF plan, asked

(* A checklist that says "ready" is right, and the gaps it names are those *)
(* there are (apply_kit.py assemble_apply_kit).                            *)
THEOREM ReadyIsReady == Spec => []ReadyMeansReady
<1>1. Inv => ReadyMeansReady
  <2> SUFFICES ASSUME Inv, NEW r \in Requests, Viewing(r), Stage(r) = "done"
               PROVE  LET plan == KitOf(r)
                          given == ContactOf[req[r].profile] \cup req[r].facts
                      IN  /\ \A f \in FieldsOf(Ats) : plan[f] # "needs_generation"
                          /\ SubmitStatus(plan) = "ready" =>
                               /\ \A f \in FieldsOf(Ats) :
                                    f.source \in {"profile", "answer_profile"} => f.fact \in given
                               /\ QuestionsOf(Ats) # {} =>
                                    /\ req[r].shown # None
                                    /\ req[r].shown \in Acceptable
                                    /\ answers[req[r].topic] # None
                          /\ Gaps(plan) =
                               {f.fact : f \in {g \in FieldsOf(Ats) : g.source = "answer_profile"}}
                               \ req[r].facts
    BY Zenon DEF ReadyMeansReady
  <2> DEFINE known == req[r].facts
             contact == ContactOf[req[r].profile]
             failed == req[r].failed
             plan == Resolved(Ats, known, contact, failed)
  <2>1. KitOf(r) = plan
    BY DEF KitOf
  <2>2. req[r] \in Fields /\ Fit(req[r]) /\ Stands(req[r], version, answers)
    BY SessionOf DEF Inv
  <2>3. failed \in BOOLEAN
    BY <2>2 DEF Fields, Flags
  <2>4. DOMAIN plan = FieldsOf(Ats)
        /\ \A f \in FieldsOf(Ats) : plan[f] = ResolvedStatus(f, known, contact, failed)
    BY DEF Resolved
  <2>5. Gaps(plan) =
          {f.fact : f \in {g \in FieldsOf(Ats) : g.source = "answer_profile"}} \ known
    BY <2>3, GapsAre
  <2>6. \A f \in FieldsOf(Ats) : plan[f] # "needs_generation"
    BY <2>3, <2>4, StatusOf
  <2>7. ASSUME SubmitStatus(plan) = "ready"
        PROVE  /\ \A f \in FieldsOf(Ats) :
                    f.source \in {"profile", "answer_profile"} => f.fact \in contact \cup known
               /\ QuestionsOf(Ats) # {} =>
                    /\ req[r].shown # None
                    /\ req[r].shown \in Acceptable
                    /\ answers[req[r].topic] # None
    <3>1. \A f \in FieldsOf(Ats) : plan[f] # "needs_user_input" /\ plan[f] # "error"
      BY <2>4, <2>7 DEF SubmitStatus, Blocked
    <3>2. \A f \in FieldsOf(Ats) :
             f.source \in {"profile", "answer_profile"} => f.fact \in contact \cup known
      BY <2>3, <2>4, <3>1, StatusOf
    <3>3. ASSUME QuestionsOf(Ats) # {}
          PROVE  /\ req[r].shown # None
                 /\ req[r].shown \in Acceptable
                 /\ answers[req[r].topic] # None
      <4>1. failed # TRUE
        <5>1. PICK f \in QuestionsOf(Ats) : TRUE
          BY <3>3
        <5>2. f \in FieldsOf(Ats)
          BY DEF QuestionsOf
        <5> HIDE DEF known, contact
        <5>3. failed = TRUE => plan[f] = "error"
          BY <2>4, <5>2, FailedQuestion
        <5> QED
          BY <3>1, <5>2, <5>3
      <4>2. Finished(req[r])
        BY <2>3, <3>3, <4>1 DEF Finished, Viewing, Stage
      <4>3. req[r].shown \in Acceptable /\ answers[req[r].topic] # None
        BY <2>2, <4>2 DEF Fit, Stands
      <4> QED
        BY <4>3, AcceptableRows, DeskAssumption
    <3> QED
      BY <3>2, <3>3
  <2> QED
    BY <2>1, <2>5, <2>6, <2>7
<1> QED
  BY <1>1, Invariant, PTL

-----------------------------------------------------------------------------
(* How far a session is from its end, at most. *)

Ahead(q) ==
    CASE q.stage = "new"        -> 11
      [] q.stage = "lettering"  -> 10
      [] q.stage = "extracting" -> 10
      [] q.stage = "grounding"  -> 9
      [] q.stage = "drafting"   -> IF q.attempt = 1 THEN 8 ELSE 7
      [] q.stage = "writing"    -> 6
      [] q.stage = "flushing"   -> 5
      [] q.stage = "flushed"    -> 4
      [] q.stage = "tracking"   -> 4
      [] q.stage = "returning"  -> 3
      [] q.stage = "done"       -> 0
      [] q.stage = "failed"     -> 0

LEMMA AheadOf == \A q \in Fields : Ahead(q) \in Nat
BY DEF Ahead, Fields, Stages

(* A step of a request, by where it stands and where it goes. *)
LEMMA StepGoesOn ==
    ASSUME IInv, NEW r \in Requests, Step(r)
    PROVE  Ahead(req'[r]) < Ahead(req[r])
<1> DEFINE p == req[r]
<1>1. p \in Fields /\ req \in [Requests -> Fields]
  BY SessionOf DEF IInv
<1>2. ASSUME NEW stage \in {"done", "failed"}, Ends(r, stage),
             p.stage \notin {"done", "failed"}
      PROVE  Ahead(req'[r]) < Ahead(p)
  <2>1. req'[r].stage = stage
    BY <1>1, <1>2 DEF Ends, Goes, Unused
  <2> QED
    BY <1>1, <1>2, <2>1 DEF Ahead, Fields, Stages
<1>3. ASSUME NEW row, Returns(r, row), p.stage \in {"flushed", "returning"}
      PROVE  Ahead(req'[r]) < Ahead(p)
  <2>1. req'[r].stage = "done"
    BY <1>1, <1>3 DEF Returns, Goes, Unused
  <2> QED
    BY <1>3, <2>1 DEF Ahead
<1>4. ASSUME p.stage = "drafting", GivesUp(r) PROVE Ahead(req'[r]) < Ahead(p)
  <2>1. CASE Viewing(r)
    <3>1. req'[r].stage = "returning"
      BY <1>1, <1>4, <2>1 DEF GivesUp, Goes, Fields
    <3> QED
      BY <1>4, <3>1 DEF Ahead
  <2>2. CASE ~ Viewing(r)
    BY <1>2, <1>4, <2>2 DEF GivesUp
  <2> QED
    BY <2>1, <2>2
<1>5. CASE ExtractRequirements(r)
  <2>1. p.stage = "extracting" /\ req'[r].stage = "grounding"
    BY <1>1, <1>5 DEF ExtractRequirements, Stage, Goes, Fields
  <2> QED
    BY <2>1 DEF Ahead
<1>6. CASE StartDrafting(r)
  <2>1. p.stage = "grounding"
    BY <1>6 DEF StartDrafting, Stage
  <2>2. CASE Refused(r)
    BY <1>2, <1>6, <2>1, <2>2 DEF StartDrafting
  <2>3. CASE ~ Refused(r)
    <3>1. req'[r].stage = "drafting"
      BY <1>1, <1>6, <2>3 DEF StartDrafting, Goes, Fields
    <3> QED
      BY <2>1, <3>1 DEF Ahead
  <2> QED
    BY <2>2, <2>3
<1>7. ASSUME NEW draft \in Drafts, Draft(r, draft) PROVE Ahead(req'[r]) < Ahead(p)
  <2>1. p.stage = "drafting"
    BY <1>7 DEF Draft, Stage
  <2>2. CASE Goes(r, [p EXCEPT !.stage = "writing", !.draft = draft])
    <3>1. req'[r].stage = "writing"
      BY <1>1, <2>2 DEF Goes, Fields
    <3> QED
      BY <2>1, <3>1 DEF Ahead
  <2>3. CASE p.attempt = 1 /\ Goes(r, [p EXCEPT !.attempt = 2])
    <3>1. req'[r].stage = "drafting" /\ req'[r].attempt = 2
      BY <1>1, <2>1, <2>3 DEF Goes, Fields
    <3> QED
      BY <2>1, <2>3, <3>1 DEF Ahead
  <2> QED
    BY <1>4, <1>7, <2>1, <2>2, <2>3 DEF Draft
<1>8. CASE OutputInvalid(r)
  BY <1>4, <1>8 DEF OutputInvalid, Stage
<1>9. CASE InsertLetter(r) \/ LetterExists(r) \/ InsertFollowup(r) \/ AnswerExists(r)
           \/ InsertApplication(r)
  <2>1. p.stage \in {"writing", "flushing", "tracking"}
        /\ \E stage \in {"done", "failed"} : Ends(r, stage)
    BY <1>9 DEF InsertLetter, LetterExists, InsertFollowup, AnswerExists, InsertApplication, Stage
  <2> QED
    BY <1>2, <2>1
<1>10. CASE LookAgain(r)
  <2>1. p.stage = "writing" /\ req'[r].stage = "flushing"
    BY <1>1, <1>10 DEF LookAgain, Stage, Goes, Fields
  <2> QED
    BY <2>1 DEF Ahead
<1>11. CASE FlushAnswer(r)
  <2>1. p.stage = "flushing" /\ req'[r].stage = "flushed"
    BY <1>1, <1>11 DEF FlushAnswer, Stage, Goes, Fields
  <2> QED
    BY <2>1 DEF Ahead
<1>12. CASE CommitAnswer(r)
  <2>1. p.stage = "flushed" /\ (Returns(r, RowOf(r)) \/ Ends(r, "done"))
    BY <1>12 DEF CommitAnswer, Stage
  <2> QED
    BY <1>2, <1>3, <2>1
<1>13. CASE ReturnKit(r)
  BY <1>3, <1>13 DEF ReturnKit, Stage
<1>14. ASSUME NEW draft \in Drafts, PlanFields(r, draft) PROVE Ahead(req'[r]) < Ahead(p)
  <2> DEFINE planned == [p EXCEPT !.stage = "returning", !.facts = facts,
                                  !.profile = profile, !.tailored = version]
             asking(field) ==
               [planned EXCEPT !.kind = field.asks, !.topic = field.key,
                               !.cached = answers[field.key] # None]
  <2>1. p.stage = "lettering"
    BY <1>14 DEF PlanFields, Stage
  <2>2. \/ Goes(r, planned)
        \/ \E field \in QuestionsOf(Ats) :
             \/ Goes(r, [asking(field) EXCEPT !.stage = "grounding"])
             \/ Goes(r, [asking(field) EXCEPT !.shown = answers[field.key]])
    BY <1>14 DEF PlanFields
  <2>3. \/ req'[r] = planned
        \/ \E field \in QuestionsOf(Ats) :
             \/ req'[r] = [asking(field) EXCEPT !.stage = "grounding"]
             \/ req'[r] = [asking(field) EXCEPT !.shown = answers[field.key]]
    <3> HIDE DEF planned, asking
    <3> QED
      BY <1>1, <2>2 DEF Goes
  <2>4. planned.stage = "returning"
    BY <1>1 DEF Fields
  <2>5. ASSUME NEW field, NEW row
        PROVE  /\ [asking(field) EXCEPT !.stage = "grounding"].stage = "grounding"
               /\ [asking(field) EXCEPT !.shown = row].stage = "returning"
    BY <1>1 DEF Fields
  <2>6. req'[r].stage \in {"grounding", "returning"}
    <3> HIDE DEF planned, asking
    <3> QED
      BY <2>3, <2>4, <2>5
  <2> QED
    BY <2>1, <2>6 DEF Ahead
<1> QED
  BY <1>5, <1>6, <1>7, <1>8, <1>9, <1>10, <1>11, <1>12, <1>13, <1>14 DEF Step

(* A request changes no other session. *)
LEMMA OnlyItsOwn ==
    ASSUME IInv, NEW r \in Requests, StartRequest(r) \/ Step(r) \/ Fails(r),
           NEW o \in Requests \ {r}
    PROVE  req'[o] = req[o]
<1>0. req \in [Requests -> Fields]
  BY DEF IInv
<1>1. ASSUME NEW s, Goes(r, s) PROVE req'[o] = req[o]
  BY <1>0, <1>1 DEF Goes
<1>2. CASE StartRequest(r)
  <2>1. \E s : Goes(r, s)
    BY <1>2 DEF StartRequest, Ask, WriteLetter, FollowUp, Begins, EnsureVersion, Track
  <2> QED
    BY <1>1, <2>1
<1>3. ASSUME NEW stage, Ends(r, stage) PROVE req'[o] = req[o]
  BY <1>1, <1>3 DEF Ends
<1>4. ASSUME NEW row, Returns(r, row) PROVE req'[o] = req[o]
  BY <1>1, <1>4 DEF Returns
<1>5. ASSUME GivesUp(r) PROVE req'[o] = req[o]
  BY <1>1, <1>3, <1>5 DEF GivesUp
<1>6. CASE \/ InsertLetter(r) \/ LetterExists(r) \/ InsertFollowup(r) \/ AnswerExists(r)
           \/ InsertApplication(r) \/ Fails(r)
  BY <1>3, <1>6 DEF InsertLetter, LetterExists, InsertFollowup, AnswerExists,
     InsertApplication, Fails
<1>7. CASE ExtractRequirements(r) \/ LookAgain(r) \/ FlushAnswer(r)
  BY <1>1, <1>7 DEF ExtractRequirements, LookAgain, FlushAnswer
<1>8. CASE StartDrafting(r)
  BY <1>1, <1>3, <1>8 DEF StartDrafting
<1>9. ASSUME NEW draft \in Drafts, Draft(r, draft) PROVE req'[o] = req[o]
  BY <1>1, <1>5, <1>9 DEF Draft
<1>10. CASE OutputInvalid(r)
  BY <1>5, <1>10 DEF OutputInvalid
<1>11. CASE CommitAnswer(r)
  BY <1>3, <1>4, <1>11 DEF CommitAnswer
<1>12. CASE ReturnKit(r)
  BY <1>4, <1>12 DEF ReturnKit
<1>13. ASSUME NEW draft \in Drafts, PlanFields(r, draft) PROVE req'[o] = req[o]
  BY <1>1, <1>13 DEF PlanFields
<1> QED
  BY <1>2, <1>6, <1>7, <1>8, <1>9, <1>10, <1>11, <1>12, <1>13 DEF Step

(* Who has flushed an answer is alone on its key, and saw the answer that  *)
(* is there.                                                               *)
Flushed(r) == req[r].stage = "flushed"
Locked ==
    /\ \A r \in Requests : Flushed(r) /\ answers[req[r].topic] # None => req[r].found
    /\ \A r, s \in Requests : Flushed(r) /\ Flushed(s) /\ req[r].topic = req[s].topic => r = s

(* Only the flush makes a session a flushed one. *)
LEMMA OnlyFlushes ==
    ASSUME IInv, NEW r \in Requests, StartRequest(r) \/ Step(r) \/ Fails(r), Flushed(r)'
    PROVE  FlushAnswer(r)
<1>1. req \in [Requests -> Fields] /\ req[r] \in Fields
  BY SessionOf DEF IInv
<1>2. ASSUME NEW s, Goes(r, s) PROVE s.stage = "flushed"
  BY <1>1, <1>2 DEF Goes, Flushed
<1>3. ASSUME NEW stage \in {"done", "failed"}, Ends(r, stage) PROVE FALSE
  BY <1>1, <1>3 DEF Ends, Goes, Unused, Flushed
<1>4. ASSUME NEW row, Returns(r, row) PROVE FALSE
  BY <1>1, <1>4 DEF Returns, Goes, Unused, Flushed
<1>5. ASSUME GivesUp(r) PROVE FALSE
  <2>1. [req[r] EXCEPT !.stage = "returning", !.failed = TRUE].stage = "returning"
    BY <1>1 DEF Fields
  <2> QED
    BY <1>2, <1>3, <1>5, <2>1 DEF GivesUp
<1>6. ~ StartRequest(r)
  <2>1. ASSUME NEW what, NEW kind, NEW topic, NEW a, Begins(r, what, kind, topic, a) PROVE FALSE
    <3>1. req'[r].stage \in {"grounding", "extracting"}
      BY <1>1, <2>1 DEF Begins, Goes, Unused
    <3> QED
      BY <3>1 DEF Flushed
  <2>2. ASSUME NEW what, NEW name PROVE ~ EnsureVersion(r, what, name)
    BY <1>1 DEF EnsureVersion, Goes, Unused, Flushed
  <2>3. ~ Track(r)
    BY <1>1 DEF Track, Goes, Unused, Flushed
  <2> QED
    BY <2>1, <2>2, <2>3 DEF StartRequest, Ask, WriteLetter, FollowUp
<1>7. /\ ~ InsertLetter(r) /\ ~ LetterExists(r) /\ ~ InsertFollowup(r) /\ ~ AnswerExists(r)
      /\ ~ InsertApplication(r) /\ ~ Fails(r)
  BY <1>3 DEF InsertLetter, LetterExists, InsertFollowup, AnswerExists, InsertApplication, Fails
<1>8. ~ ExtractRequirements(r)
  <2>1. [req[r] EXCEPT !.stage = "grounding", !.holds = TRUE].stage = "grounding"
    BY <1>1 DEF Fields
  <2> QED
    BY <1>2, <2>1 DEF ExtractRequirements
<1>9. ~ StartDrafting(r)
  <2>1. [req[r] EXCEPT !.stage = "drafting"].stage = "drafting"
    BY <1>1 DEF Fields
  <2> QED
    BY <1>2, <1>3, <2>1 DEF StartDrafting
<1>10. ASSUME NEW draft \in Drafts PROVE ~ Draft(r, draft)
  <2>1. [req[r] EXCEPT !.stage = "writing", !.draft = draft].stage = "writing"
    BY <1>1 DEF Fields
  <2>2. [req[r] EXCEPT !.attempt = 2].stage = req[r].stage
    BY <1>1 DEF Fields
  <2> QED
    BY <1>2, <1>5, <2>1, <2>2 DEF Draft, Stage
<1>11. ~ OutputInvalid(r) /\ ~ CommitAnswer(r) /\ ~ ReturnKit(r)
  BY <1>3, <1>4, <1>5 DEF OutputInvalid, CommitAnswer, ReturnKit
<1>12. ~ LookAgain(r)
  <2> DEFINE seen == answers[req[r].topic] # None
  <2>1. [req[r] EXCEPT !.stage = "flushing", !.found = seen].stage = "flushing"
    BY <1>1 DEF Fields
  <2> QED
    BY <1>2, <2>1 DEF LookAgain
<1>13. ASSUME NEW draft \in Drafts PROVE ~ PlanFields(r, draft)
  <2> DEFINE planned == [req[r] EXCEPT !.stage = "returning", !.facts = facts,
                                       !.profile = profile, !.tailored = version]
             asking(field) ==
               [planned EXCEPT !.kind = field.asks, !.topic = field.key,
                               !.cached = answers[field.key] # None]
  <2>1. PlanFields(r, draft) =>
          \/ Goes(r, planned)
          \/ \E field \in QuestionsOf(Ats) :
               \/ Goes(r, [asking(field) EXCEPT !.stage = "grounding"])
               \/ Goes(r, [asking(field) EXCEPT !.shown = answers[field.key]])
    BY DEF PlanFields
  <2>2. planned.stage = "returning"
    BY <1>1 DEF Fields
  <2>3. ASSUME NEW field, NEW row
        PROVE  /\ [asking(field) EXCEPT !.stage = "grounding"].stage = "grounding"
               /\ [asking(field) EXCEPT !.shown = row].stage = "returning"
    BY <1>1 DEF Fields
  <2> HIDE DEF planned, asking
  <2> QED
    BY <1>2, <2>1, <2>2, <2>3
<1> QED
  BY <1>6, <1>7, <1>8, <1>9, <1>10, <1>11, <1>12, <1>13 DEF Step

(* Only the commit changes an answer, and only the one it is about. *)
LEMMA OnlyCommits ==
    ASSUME IInv, NEW r \in Requests, StartRequest(r) \/ Step(r) \/ Fails(r)
    PROVE  \/ answers' = answers
           \/ /\ Flushed(r)
              /\ \A q \in Questions : q # req[r].topic => answers'[q] = answers[q]
<1>1. CASE CommitAnswer(r)
  BY <1>1 DEF CommitAnswer, Stage, Flushed, IInv, Tabled
<1>2. CASE StartRequest(r) \/ Fails(r)
  BY <1>2 DEF StartRequest, Ask, WriteLetter, FollowUp, Begins, EnsureVersion, Track, Fails, tables
<1>3. CASE Step(r) /\ ~ CommitAnswer(r)
  BY <1>3 DEF Step, ExtractRequirements, StartDrafting, Draft, PlanFields, OutputInvalid,
     InsertLetter, LetterExists, InsertFollowup, LookAgain, FlushAnswer, AnswerExists,
     ReturnKit, InsertApplication, tables
<1> QED
  BY <1>1, <1>2, <1>3

LEMMA LockedKeeps ==
    ASSUME IInv, Locked, NEW r \in Requests, StartRequest(r) \/ Step(r) \/ Fails(r)
    PROVE  Locked'
<1>0. req \in [Requests -> Fields]
  BY DEF IInv
<1>1. \A o \in Requests \ {r} : req'[o] = req[o]
  BY OnlyItsOwn
<1>2. \A o \in Requests : Flushed(o) => req[o].topic \in Questions
  <2> TAKE o \in Requests
  <2> SUFFICES ASSUME Flushed(o) PROVE req[o].topic \in Questions
    OBVIOUS
  <2>1. Fit(req[o])
    BY SessionOf
  <2> QED
    BY <2>1 DEF Flushed, Fit, KindFits, Doing
<1>3. ASSUME Flushed(r)'
      PROVE  /\ answers' = answers /\ req'[r].topic = req[r].topic
             /\ req'[r].found = req[r].found
             /\ answers[req[r].topic] # None => req[r].found
             /\ \A o \in Requests \ {r} : ~ (Flushed(o) /\ req[o].topic = req[r].topic)
  <2>1. FlushAnswer(r)
    BY <1>3, OnlyFlushes
  <2>2. req'[r] = [req[r] EXCEPT !.stage = "flushed"]
    BY <1>0, <2>1 DEF FlushAnswer, Goes
  <2>3. req'[r].topic = req[r].topic /\ req'[r].found = req[r].found
    BY <1>0, <2>2 DEF Fields
  <2> QED
    BY <2>1, <2>3 DEF FlushAnswer, Unflushed, Flushed, Stage, tables
<1>4. ASSUME NEW o \in Requests, Flushed(o)', answers'[req'[o].topic] # None
      PROVE  req'[o].found
  <2>1. CASE o = r
    BY <1>3, <1>4, <2>1
  <2>2. CASE o # r
    <3>1. req'[o] = req[o] /\ Flushed(o)
      BY <1>1, <1>4, <2>2 DEF Flushed
    <3>2. answers'[req[o].topic] = answers[req[o].topic]
      <4>1. Flushed(r) => req[r].topic # req[o].topic
        BY <2>2, <3>1 DEF Locked
      <4> QED
        BY <1>2, <3>1, <4>1, OnlyCommits
    <3> QED
      BY <1>4, <3>1, <3>2 DEF Locked
  <2> QED
    BY <2>1, <2>2
<1>5. ASSUME NEW o \in Requests, NEW u \in Requests, Flushed(o)', Flushed(u)',
             req'[o].topic = req'[u].topic, o # u
      PROVE  FALSE
  <2>1. ASSUME NEW v \in Requests, v # r, Flushed(v)' PROVE Flushed(v) /\ req'[v] = req[v]
    BY <1>1, <2>1 DEF Flushed
  <2>2. CASE o # r /\ u # r
    BY <1>5, <2>1, <2>2 DEF Locked
  <2>3. CASE o = r
    BY <1>3, <1>5, <2>1, <2>3
  <2>4. CASE u = r
    BY <1>3, <1>5, <2>1, <2>4
  <2> QED
    BY <2>2, <2>3, <2>4
<1> QED
  BY <1>4, <1>5 DEF Locked

(* An answer is replaced only by a request that saw that there was one     *)
(* (short_answers.py _upsert_short_answer), however many ask at once.      *)
THEOREM AnswersReplacedAfterLooking == Spec => AnswersReplacedKnowingly
<1>1. Init => Locked
  BY DEF Init, Locked, Flushed, Unused
<1>2. Inv /\ Locked /\ [Next]_<<vars, edits>> => Locked'
  <2> SUFFICES ASSUME Inv, Locked, [Next]_<<vars, edits>> PROVE Locked'
    OBVIOUS
  <2>1. CASE \E r \in Requests : StartRequest(r) \/ Step(r) \/ Fails(r)
    BY <2>1, LockedKeeps DEF Inv
  <2>2. CASE Others
    <3>1. req' = req /\ answers' = answers
      BY <2>2 DEF Others, UpdateApplication, WriteFacts, RewriteVersion, EditProfile,
         RewriteLetter
    <3> QED
      BY <3>1 DEF Locked, Flushed
  <2>3. CASE UNCHANGED <<vars, edits>>
    BY <2>3 DEF vars, Locked, Flushed
  <2> QED
    BY <2>1, <2>2, <2>3 DEF Next
<1>3. Locked => [\A r \in Requests :
                   CommitAnswer(r) /\ answers[req[r].topic] # None => req[r].found]_vars
  BY DEF Locked, Flushed, CommitAnswer, Stage
<1> QED
  BY <1>1, <1>2, <1>3, Invariant, PTL DEF Spec, AnswersReplacedKnowingly

(* Every step of a request, a second draft included, takes it nearer to    *)
(* its end, and nothing that others do, or the user does to an answer, an  *)
(* application or the profile, takes it back: it drafts at most twice.     *)
THEOREM RequestsGoForward ==
    Spec => [][\A r \in Requests :
                 /\ Step(r) => Ahead(req'[r]) < Ahead(req[r])
                 /\ Ahead(req'[r]) <= Ahead(req[r])]_vars
<1>1. ASSUME IInv, NEW r \in Requests, StartRequest(r) \/ Fails(r)
      PROVE  Ahead(req'[r]) < Ahead(req[r])
  <2>1. req[r] \in Fields /\ req \in [Requests -> Fields]
    BY <1>1, SessionOf DEF IInv
  <2>2. CASE Fails(r)
    <3>1. /\ req[r].stage \notin {"new", "done", "failed"}
          /\ req'[r].stage = "failed"
      BY <2>1, <2>2 DEF Fails, Ends, Goes, Stage, Unused
    <3> QED
      BY <2>1, <3>1 DEF Ahead, Fields, Stages
  <2>3. ASSUME NEW what, NEW kind, NEW topic, NEW a, Begins(r, what, kind, topic, a)
        PROVE  req[r].stage = "new" /\ req'[r].stage \in {"grounding", "extracting"}
    BY <2>1, <2>3 DEF Begins, Goes, Stage, Unused
  <2>4. ASSUME NEW what, NEW name, EnsureVersion(r, what, name)
        PROVE  req[r].stage = "new" /\ req'[r].stage = "lettering"
    BY <2>1, <2>4 DEF EnsureVersion, Goes, Stage, Unused
  <2>5. ASSUME Track(r)
        PROVE  req[r].stage = "new" /\ req'[r].stage \in {"tracking", "done"}
    BY <2>1, <2>5 DEF Track, Goes, Stage, Unused
  <2>6. CASE StartRequest(r)
    <3>1. /\ req[r].stage = "new"
          /\ req'[r].stage \in {"grounding", "extracting", "lettering", "tracking", "done"}
      BY <2>3, <2>4, <2>5, <2>6 DEF StartRequest, Ask, WriteLetter, FollowUp
    <3> QED
      BY <3>1 DEF Ahead
  <2> QED
    BY <1>1, <2>2, <2>6
<1>2. ASSUME Inv, Inv', Next, NEW r \in Requests
      PROVE  Ahead(req'[r]) <= Ahead(req[r])
  <2>1. Ahead(req[r]) \in Nat /\ Ahead(req'[r]) \in Nat
    BY <1>2, AheadOf DEF Inv, IInv
  <2>2. ASSUME NEW o \in Requests, StartRequest(o) \/ Step(o) \/ Fails(o)
        PROVE  Ahead(req'[r]) <= Ahead(req[r])
    <3>1. CASE o = r
      BY <1>1, <1>2, <2>1, <2>2, <3>1, StepGoesOn DEF Inv
    <3>2. CASE o # r
      <4>1. req'[r] = req[r]
        BY <1>2, <2>2, <3>2, OnlyItsOwn DEF Inv
      <4> QED
        BY <2>1, <4>1
    <3> QED
      BY <3>1, <3>2
  <2>3. CASE Others
    <3>1. req' = req
      BY <2>3 DEF Others, UpdateApplication, WriteFacts, RewriteVersion, EditProfile,
         RewriteLetter
    <3> QED
      BY <2>1, <3>1
  <2> QED
    BY <1>2, <2>2, <2>3 DEF Next
<1>3. Inv /\ Inv' /\ [Next]_<<vars, edits>> =>
        [\A r \in Requests :
           /\ Step(r) => Ahead(req'[r]) < Ahead(req[r])
           /\ Ahead(req'[r]) <= Ahead(req[r])]_vars
  <2> SUFFICES ASSUME Inv, Inv', [Next]_<<vars, edits>>, vars' # vars, NEW r \in Requests
               PROVE  /\ Step(r) => Ahead(req'[r]) < Ahead(req[r])
                      /\ Ahead(req'[r]) <= Ahead(req[r])
    OBVIOUS
  <2> QED
    BY <1>2, StepGoesOn DEF Inv
<1> QED
  BY <1>3, Invariant, PTL DEF Spec
=============================================================================
