-------------------------------- MODULE Claims ---------------------------------
(***************************************************************************)
(* The claims a resume makes and the deterministic check that a rewritten  *)
(* bullet makes no new ones (app/services/claims.py).  The regular         *)
(* expressions are abstracted to what they find: Facts says of each text   *)
(* which numbers, dates and capitalised words are in it and which terms it *)
(* mentions.  Terms are normalised, so two spellings are one term.         *)
(***************************************************************************)
EXTENDS Naturals, Sequences

CONSTANTS
    Terms,    \* skills, technologies, employers, titles, dates, other names
    Texts,    \* bullets and sentences
    Facts,    \* text -> what is found in it
    PartsOf,  \* term -> the terms a phrase is split into, itself among them
    Within,   \* term -> the terms that a search finds in it
    CapsIn,   \* term -> the capitalised words in it
    Keys,     \* the terms found in the field names of a serialised resume
    Long,     \* terms of two characters or more
    None

TextFacts ==
    [numbers : SUBSET Nat, dates : SUBSET Terms, caps : SUBSET Terms,
     openings : SUBSET Terms,   \* caps that only open a sentence, or are common starters
     mentions : SUBSET Terms, fits : BOOLEAN, words : Nat, pronouns : Nat]

ASSUME ClaimsAssumption ==
    /\ Facts \in [Texts -> TextFacts]
    /\ PartsOf \in [Terms -> SUBSET Terms]
    /\ Within \in [Terms -> SUBSET Terms] /\ CapsIn \in [Terms -> SUBSET Terms]
    /\ Keys \subseteq Terms
    /\ Long \subseteq Terms
    /\ \A t \in Long : t \in PartsOf[t]

Experience ==
    [company : Terms, title : Terms, location : Terms \cup {None}, start : Terms,
     end : Terms \cup {None}, technologies : SUBSET Terms, bullets : Seq(Texts)]
Project == [name : Terms, description : Texts \cup {None}, technologies : SUBSET Terms,
            url : Terms \cup {None}, bullets : Seq(Texts)]
SkillGroup == [category : Terms, items : Seq(Terms)]
Resume == [contact : Terms, summary : Texts \cup {None}, experience : Seq(Experience),
           education : Seq(Terms), skills : Seq(SkillGroup), projects : Seq(Project)]

JobRequirements ==
    [hard_skills : SUBSET [term : Terms, weight : 0 .. 100],
     must_haves : SUBSET [phrase : Terms, caps : SUBSET Terms],
     nice_to_haves : SUBSET [phrase : Terms, caps : SUBSET Terms],
     domain_terms : SUBSET Terms]

-----------------------------------------------------------------------------
Elements(s) == {s[i] : i \in DOMAIN s}
Split(terms) == UNION {PartsOf[t] : t \in terms}

BulletsOf(resume) ==
    UNION {Elements(item.bullets) : item \in Elements(resume.experience)
                                             \cup Elements(resume.projects)}
SkillsOf(resume) == UNION {Elements(g.items) : g \in Elements(resume.skills)}
TechnologiesOf(resume) ==
    UNION {item.technologies : item \in Elements(resume.experience) \cup Elements(resume.projects)}

(* Known skills and technologies, of the job and of the candidate. *)
TechLexicon(requirements, resume) ==
    LET phrases == requirements.must_haves \cup requirements.nice_to_haves
    IN  Split({h.term : h \in requirements.hard_skills}
              \cup requirements.domain_terms
              \cup (UNION {p.caps : p \in phrases})
              \cup SkillsOf(resume)
              \cup TechnologiesOf(resume)) \cap Long

(* Employers, titles and dates of the roles. *)
ProtectedStrings(resume) ==
    Long \cap (UNION {{item.company, item.title, item.start, item.end} :
                        item \in Elements(resume.experience)})

(* Every string of a resume that is not a text: the person and the links,  *)
(* employers, titles, places, dates, schools, skills and their headings,   *)
(* technologies, projects and their addresses.                             *)
StringsOf(resume) ==
    ({resume.contact}
     \cup Elements(resume.education)
     \cup (UNION {{item.company, item.title, item.location, item.start, item.end} :
                  item \in Elements(resume.experience)})
     \cup SkillsOf(resume) \cup {g.category : g \in Elements(resume.skills)}
     \cup TechnologiesOf(resume)
     \cup (UNION {{p.name, p.url} : p \in Elements(resume.projects)})) \ {None}

TextsOf(resume) ==
    BulletsOf(resume)
    \cup (({resume.summary} \cup {p.description : p \in Elements(resume.projects)}) \ {None})

(* What a search finds in the resume, and the capitalised words in it.     *)
MentionedIn(resume) ==
    (UNION {Facts[t].mentions : t \in TextsOf(resume)})
    \cup (UNION {Within[t] : t \in StringsOf(resume)})
ProfileCaps(resume) ==
    (UNION {Facts[t].caps : t \in TextsOf(resume)})
    \cup (UNION {CapsIn[t] : t \in StringsOf(resume)})

(* A claim is looked for in the resume as it is serialised, its field      *)
(* names included; they have no capitals.                                  *)
ProfileMentions(resume) == MentionedIn(resume) \cup Keys

ExtractClaims(text, lexicon, protected) ==
    [numbers    |-> Facts[text].numbers,
     dates      |-> Facts[text].dates,
     tech_terms |-> Facts[text].mentions \cap lexicon,
     employer_title_strings |-> Facts[text].mentions \cap protected]

(* Capitalised words of the rewrite that nothing backs. *)
SuspiciousCaps(original, rewritten, resume, lexicon, protected) ==
    (Facts[rewritten].caps \ Facts[rewritten].openings)
    \ (Facts[original].caps \cup ProfileCaps(resume) \cup lexicon \cup protected)

(* verify_rewrite passes: no number, technology, employer, title, date or  *)
(* capitalised name is new, and no employer, title or date is lost.        *)
RewriteVerified(original, rewritten, resume, requirements) ==
    LET lexicon   == TechLexicon(requirements, resume)
        protected == ProtectedStrings(resume)
        before    == ExtractClaims(original, lexicon, protected)
        after     == ExtractClaims(rewritten, lexicon, protected)
    IN  /\ after.numbers \subseteq before.numbers
        /\ after.tech_terms \ before.tech_terms \subseteq ProfileMentions(resume)
        /\ after.employer_title_strings = before.employer_title_strings
        /\ after.dates = before.dates
        /\ SuspiciousCaps(original, rewritten, resume, lexicon, protected) = {}
=============================================================================
