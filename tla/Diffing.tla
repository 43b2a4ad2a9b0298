-------------------------------- MODULE Diffing --------------------------------
(***************************************************************************)
(* diff_structured_resumes (app/services/diffing.py): where two resumes    *)
(* differ, as a set of references; and enrich_diff                         *)
(* (app/services/versions.py), what the page of a version makes of them.   *)
(***************************************************************************)
EXTENDS Naturals, Sequences, FiniteSets

ExperienceFields == {"company", "title", "location", "start", "end", "technologies"}
ProjectFields == {"name", "description", "technologies", "url"}

(* Positions at which two lists differ, one past the other's end included. *)
ChangedAt(s, t) ==
    {j \in DOMAIN s \cup DOMAIN t : j \in DOMAIN s \cap DOMAIN t => s[j] # t[j]}

(* Two lists of items: an item that only one of them has is reported as a  *)
(* whole, the others field by field and bullet by bullet.                  *)
ChangedItems(section, fields, before, after) ==
    LET both == DOMAIN before \cap DOMAIN after
    IN  {<<section, i>> : i \in (DOMAIN before \cup DOMAIN after) \ both}
        \cup (UNION {{<<section, i, f>> : f \in {g \in fields : before[i][g] # after[i][g]}} :
                       i \in both})
        \cup (UNION {{<<section, i, "bullets", j>> :
                         j \in ChangedAt(before[i].bullets, after[i].bullets)} : i \in both})

Diff(before, after) ==
    {<<f>> : f \in {g \in {"summary", "contact", "education", "skills"} : before[g] # after[g]}}
    \cup ChangedItems("experience", ExperienceFields, before.experience, after.experience)
    \cup ChangedItems("projects", ProjectFields, before.projects, after.projects)

-----------------------------------------------------------------------------
IsBulletRef(ref) == Len(ref) = 4
Reorderings == {<<"skills">>, <<"education">>}

BulletsIn(resume) ==
    UNION {UNION {{<<section, i, "bullets", j>> : j \in DOMAIN resume[section][i].bullets} :
                    i \in DOMAIN resume[section]} : section \in {"experience", "projects"}}

(* Changed bullets are grouped by their item; total is of the resume shown *)
(* and may be less than the changes when one was taken out of it.          *)
Enriched(target, changes, stats_reordered) ==
    LET refs  == {c \in changes : IsBulletRef(c)}
        total == Cardinality(BulletsIn(target))
    IN  [groups |-> [item \in {<<c[1], c[2]>> : c \in refs} |->
                        {c \in refs : <<c[1], c[2]>> = item}],
         section_reorderings |-> changes \cap Reorderings,
         other_changes       |-> changes \ (refs \cup Reorderings),
         bullets_rewritten   |-> Cardinality(refs),
         bullets_unchanged   |-> IF Cardinality(refs) > total THEN 0 ELSE total - Cardinality(refs),
         skills_reordered    |-> stats_reordered \/ <<"skills">> \in changes]
=============================================================================
