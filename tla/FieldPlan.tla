-------------------------------- MODULE FieldPlan ------------------------------
(***************************************************************************)
(* The fields of an application form (app/data/ats_fields.py), which of    *)
(* them can be filled in, and the checklist made of them                   *)
(* (app/services/apply_kit.py).                                            *)
(***************************************************************************)
EXTENDS Naturals, Sequences, FiniteSets

(* A field of the form: the fact that it shows, and the kind of answer it  *)
(* asks for, if one is to be written; its key is the question then.        *)
Field(key, source, fact) == [key |-> key, source |-> source, fact |-> fact, asks |-> "nothing"]
Contact(key) == Field(key, "profile", key)
Fact(key, column) == Field(key, "answer_profile", column)
Upload(key) == Field(key, "generated", key)
Question(key, kind) == [Upload(key) EXCEPT !.asks = kind]
Eeo == Field("eeo", "manual_only", "eeo")

FIELD_TAXONOMY ==
    [greenhouse |->
        <<Contact("name"), Contact("email"), Contact("phone"), Upload("resume_upload"),
          Upload("cover_letter_upload"), Contact("linkedin_url"),
          Fact("work_authorization", "work_auth"), Fact("sponsorship", "sponsorship_needed"),
          Question("why_company", "why_company"), Fact("relocation", "relocation"),
          Fact("desired_salary", "salary"), Fact("how_did_you_hear", "referral"), Eeo>>,
     lever |->
        <<Contact("name"), Contact("email"), Contact("phone"), Upload("resume_upload"),
          Contact("linkedin_url"), Contact("github_url"), Contact("portfolio_url"),
          Question("additional_information", "why_role"), Eeo>>,
     ashby |->
        <<Contact("name"), Contact("email"), Upload("resume_upload"), Contact("linkedin_url"),
          Fact("work_authorization", "work_auth"), Fact("sponsorship", "sponsorship_needed"), Eeo>>,
     unknown |-> << >>]

FieldsOf(ats) == {FIELD_TAXONOMY[ats][i] : i \in DOMAIN FIELD_TAXONOMY[ats]}
QuestionsOf(ats) == {f \in FieldsOf(ats) : f.asks # "nothing"}

(* Columns of an answer profile that are never empty, and those that may   *)
(* be; "salary" is given when one end of the range is.                     *)
REQUIRED_FOR_COMPLETENESS == {"work_auth", "sponsorship_needed", "relocation"}
OptionalFacts == {"salary", "referral"}

(* Whether the row, or the lack of one, is all that forms need.            *)
Complete(facts) == REQUIRED_FOR_COMPLETENESS \subseteq facts

(* build_field_plan, as the status of each field.                          *)
PlannedStatus(field, facts, contact) ==
    CASE field.source = "generated"   -> "needs_generation"
      [] field.source = "manual_only" -> "manual_only"
      [] OTHER ->
           IF field.fact \in (IF field.source = "profile" THEN contact ELSE facts)
           THEN "ready" ELSE "needs_user_input"

(* What assemble_apply_kit makes of it: a document is there, an answer is  *)
(* there or could not be generated.                                        *)
ResolvedStatus(field, facts, contact, failed) ==
    LET planned == PlannedStatus(field, facts, contact)
    IN  IF planned # "needs_generation" THEN planned
        ELSE IF field.asks # "nothing" /\ failed THEN "error" ELSE "ready"

Resolved(ats, facts, contact, failed) ==
    [f \in FieldsOf(ats) |-> ResolvedStatus(f, facts, contact, failed)]

Gaps(plan) ==
    {f.fact : f \in {g \in DOMAIN plan : g.source = "answer_profile"
                                          /\ plan[g] = "needs_user_input"}}

\* Broken variant.
BlockedByFacts(plan) == \E f \in DOMAIN plan : plan[f] = "needs_user_input"

(* The checklist's last step waits for the others.                         *)
Blocked(plan) == \E f \in DOMAIN plan : plan[f] \in {"needs_user_input", "error"}

SubmitStatus(plan) == IF Blocked(plan) THEN "needs_user_input" ELSE "ready"
=============================================================================
