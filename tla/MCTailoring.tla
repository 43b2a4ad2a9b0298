------------------------------ MODULE MCTailoring ------------------------------
(***************************************************************************)
(* An instance of Tailoring for TLC: three roles, the first two of them    *)
(* recent; three of their bullets are candidates and two are put to the    *)
(* model; a skill of one letter, listed twice in a group; two groups of    *)
(* one category, one before and one behind the group that matches.         *)
(***************************************************************************)
EXTENDS Tailoring

Words == {"Acme Corp", "Acme", " ", "Beta", "Gamma", "eng", "2020-01", "2021-06", "python", "kafka", "C",
          "Orion", "Ada", "MIT", "Langs", "Tools"}
LongWords == Words \ {"C", " "}
Itself == [t \in Words |-> {t}]
AlsoAcme == [t \in Words |-> CASE t = "Acme Corp" -> {"Acme Corp", "Acme"}
                              [] t \in {"C", " "} -> {} [] OTHER -> {t}]
Names == {"Acme", "Beta", "Gamma", "C", "Orion", "Ada", "MIT", "Langs", "Tools"}
Capitals == [t \in Words |-> (AlsoAcme[t] \cup {t}) \cap Names]
NoOverlap == [t \in Words |-> {}]

(* No claims but those given.                                              *)
Plain == [numbers |-> {}, dates |-> {}, caps |-> {}, openings |-> {}, mentions |-> {},
          fits |-> TRUE, words |-> 10, pronouns |-> 0]

(* a1 opens with a name, a2 uses it inside a sentence; a3 is a fair        *)
(* rephrasing; c1 mentions a skill that the profile has elsewhere, and a   *)
(* part of an employer's name, c2 a new number.                            *)
Found ==
    [t \in {"a", "a1", "a2", "a3", "b", "c", "c1", "c2", "d"} |->
       CASE t = "a"  -> [Plain EXCEPT !.numbers = {40}, !.pronouns = 1]
         [] t = "a1" -> [Plain EXCEPT !.numbers = {40}, !.caps = {"Orion"}, !.openings = {"Orion"},
                                      !.mentions = {"python"}]
         [] t = "a2" -> [Plain EXCEPT !.numbers = {40}, !.caps = {"Orion"}]
         [] t = "a3" -> [Plain EXCEPT !.words = 40]
         [] t = "c1" -> [Plain EXCEPT !.mentions = {"python", "Acme"}, !.caps = {"Acme"}]
         [] t = "c2" -> [Plain EXCEPT !.numbers = {99}]
         [] OTHER    -> Plain]

Close(n) == [t \in Words |-> n]
Near == [t \in DOMAIN Found |->
           CASE t = "b" -> Close(40) [] t = "c" -> Close(20) [] t = "d" -> Close(-5)
             [] t \in {"a1", "c1"} -> Close(80) [] OTHER -> Close(10)]

Role(company, title, texts) ==
    [company |-> company, title |-> title, location |-> None, start |-> "2020-01",
     end |-> "2021-06", technologies |-> {}, bullets |-> texts]
Ada ==
    [contact |-> "Ada", summary |-> None,
     experience |-> <<Role("Acme Corp", "eng", <<"a", "b">>), Role("Beta", " ", <<"c">>),
                     Role("Gamma", "eng", <<"d">>)>>,
     education |-> <<"MIT">>,
     skills |-> <<[category |-> "Tools", items |-> <<"C">>],
                  [category |-> "Langs", items |-> <<"C", "python", "C">>],
                  [category |-> "Tools", items |-> <<"kafka">>]>>,
     projects |-> << >>]

Job == [hard_skills |-> {[term |-> "python", weight |-> 80], [term |-> "kafka", weight |-> 60]},
        must_haves |-> {[phrase |-> "python", caps |-> {}]}, nice_to_haves |-> {},
        domain_terms |-> {}]

Proposal(ref, quoted, text, kept) ==
    [ref |-> ref, original |-> quoted, rewritten |-> text, preserved |-> kept]
Proposals ==
    {Proposal(<<1, 1>>, "a", "a1", TRUE), Proposal(<<1, 1>>, "a", "a2", TRUE),
     Proposal(<<1, 1>>, "a", "a", TRUE), Proposal(<<1, 1>>, "a", "a3", FALSE),
     Proposal(<<1, 2>>, "b", "a3", TRUE), Proposal(<<7, 7>>, "b", "a3", TRUE),
     Proposal(<<2, 1>>, "c", "c1", TRUE), Proposal(<<2, 1>>, "c", "c2", TRUE),
     Proposal(<<2, 1>>, "a", "c1", TRUE)}
=============================================================================
