--------------------------------- MODULE MCDesk --------------------------------
(***************************************************************************)
(* An instance of Desk for TLC: a resume as its owner wrote it and as it   *)
(* was tailored, the form of Greenhouse, and drafts that pass against both *)
(* resumes, against one, or against none.                                  *)
(***************************************************************************)
EXTENDS Desk

CONSTANTS r1, r2

Words == {"Acme", "eng", "2020-01", "2021-06", "python", "kafka", "Orion", "Ada", "MIT", "Langs"}
Itself == [t \in Words |-> {t}]
Nothing == [t \in Words |-> {}]

Plain == [numbers |-> {}, dates |-> {}, caps |-> {}, openings |-> {}, mentions |-> {},
          fits |-> TRUE, words |-> 10, pronouns |-> 0]
Found == [t \in {"a", "b", "we ship"} |-> IF t = "b" THEN [Plain EXCEPT !.numbers = {40}] ELSE Plain]
Near == [t \in DOMAIN Found |-> [w \in Words |-> IF t = "b" THEN 80 ELSE 20]]

Written1(words) ==
    [words |-> words, paragraphs |-> 3, subject |-> TRUE, brackets |-> FALSE, slots |-> 0,
     asides |-> FALSE, banned |-> FALSE, cites |-> {<<"experience", 1, 1>>, <<"jd", 1, 0>>},
     nouns |-> {"Acme"}, numbers |-> {}, facts |-> {}]

(* A note of 85 words fits a short answer and two kinds of follow-ups,     *)
(* "tailored" uses a number of the tailored resume, "thanks" has the slot  *)
(* for a personal detail, "invented" names what nothing backs.             *)
Found2 ==
    [d \in {"note", "tailored", "thanks", "invented", "letter"} |->
        CASE d = "note"     -> Written1(85)
          [] d = "tailored" -> [Written1(85) EXCEPT !.numbers = {40}]
          [] d = "thanks"   -> [Written1(85) EXCEPT !.slots = 1, !.brackets = TRUE]
          [] d = "invented" -> [Written1(85) EXCEPT !.nouns = {"Orion"}]
          [] d = "letter"   -> [Written1(300) EXCEPT !.facts = {"we ship"}]]

JobFound == [mentions |-> {"kafka"}, numbers |-> {}, snippets |-> 2,
             likeness |-> [t \in DOMAIN Found |-> IF t = "we ship" THEN 75 ELSE 10]]

Ada(bullet) ==
    [contact |-> "Ada", summary |-> None,
     experience |-> <<[company |-> "Acme", title |-> "eng", location |-> None, start |-> "2020-01",
                       end |-> "2021-06", technologies |-> {}, bullets |-> <<bullet>>]>>,
     education |-> <<"MIT">>,
     skills |-> <<[category |-> "Langs", items |-> <<"python">>]>>, projects |-> << >>]
Own == "own"
Rewritten == "rewritten"
TwoResumes == [n \in {Own, Rewritten} |-> IF n = Own THEN Ada("a") ELSE Ada("b")]

Asked == [hard_skills |-> {[term |-> "python", weight |-> 80]},
          must_haves |-> {}, nice_to_haves |-> {}, domain_terms |-> {}]

OneAndAnother ==
    [r \in {r1, r2} |-> IF r = r1 THEN {"view", "regenerate"}
                       ELSE {"ask", "letter", "followup", "track"}]

AllContacts == {"name", "email", "phone", "linkedin_url"}
MCFacts == {{}, REQUIRED_FOR_COMPLETENESS \cup OptionalFacts}
Contacts == [n \in {Own, Rewritten} |-> AllContacts]

(* Of the states at first, those with the profile as its owner wrote it, a *)
(* version that nobody has tailored yet or none, and no answer profile.    *)
FirstInit ==
    /\ Init
    /\ profile = Own
    /\ facts = {}
    /\ version = None => ~ extracted
    /\ version # Rewritten
FirstSpec == FirstInit /\ [][Next]_<<vars, edits>> /\ Fairness
=============================================================================
