---------------------------------- MODULE Kit ----------------------------------
(***************************************************************************)
(* The apply kit of one job target: the tailored resume version, its cover *)
(* letters, the rendered PDFs and the applications that reference the      *)
(* version, under concurrent API requests.                                 *)
(*                                                                         *)
(* A request runs in a session of its own.  It keeps the rows it loaded as *)
(* it read them, flushes its writes (and so holds their row locks, and     *)
(* makes rivals for a unique key wait) and commits at the points where the *)
(* code does: POST kit commits once after the resume PDF is uploaded and   *)
(* once after the letter PDF is.  Uploads to S3 are outside of any         *)
(* transaction.  A request that fails, or whose process dies, is rolled    *)
(* back to its last commit.                                                *)
(*                                                                         *)
(* A text stands for the resume an LLM call may produce; a letter is known *)
(* by the text it was written from; a PDF by the text and the template it  *)
(* shows.  The docx documents themselves are left out, and so is rendering *)
(* a letter to docx, which touches the version as rendering it to PDF does.*)
(*                                                                         *)
(* A definition marked as a broken variant is what the one after it would  *)
(* be with a bug; no other definition uses it.                             *)
(***************************************************************************)
EXTENDS Naturals, FiniteSets

CONSTANTS
    Requests,   \* API requests that may be in flight
    Kinds,      \* which of them a run sends
    Versions,   \* ids of resume_versions rows for this job target
    Texts,      \* what tailoring may produce
    Templates,  \* template ids
    Classic,    \* the default template
    Tones,      \* tones of a letter
    Standard,   \* the tone of the letter that GET kit asks for
    None

AllKinds == {"kit", "tailor", "render", "docx", "letter", "letterrender", "delete", "track",
             "create"}
Row == [text : Texts, template : Templates, live : BOOLEAN]
Shown == [text : Texts, template : Templates]

(* None differs from everything a nullable column may hold. *)
ASSUME KitAssumption ==
    /\ Classic \in Templates
    /\ Standard \in Tones
    /\ None \notin Versions \cup Texts \cup Templates \cup Tones
    /\ None \notin AllKinds
    /\ None \notin Row
    /\ None \notin Shown

VARIABLES
    extracted,  \* job_targets.extracted_requirements is set
    rows,       \* version -> [text, template, live] or None
    letters,    \* version -> tone -> the text a letter was written from
    docs,       \* documents rows of kind resume_pdf: 0, 1, or 2 for many
    letterDocs, \* version -> tones with a documents row for the letter's PDF
    pdf,        \* S3: what the object under the resume's key shows
    letterPdf,  \* S3: the letter the object under the letter's key shows
    apps,       \* applications per version: 0, 1, or 2 for many
    req         \* what each request has in memory

tables == <<extracted, rows, letters, docs, letterDocs, apps>>
store  == <<pdf, letterPdf>>
vars   == <<tables, store, req>>

Stages == {"idle", "extracting", "loading", "tailoring", "pdf", "put", "letter",
           "writing", "letterpdf", "letterput", "deleting", "applying"}
Writes == {"job", "insert", "text", "template", "letter"}

(* ver, text and template are the version row in the session, let its      *)
(* letter row, wrote what has been flushed and not committed.              *)
Request ==
    [stage : Stages, kind : AllKinds \cup {None}, force : BOOLEAN,
     tone : Tones \cup {None}, switch : Templates \cup {None},
     ver : Versions \cup {None}, text : Texts \cup {None},
     template : Templates \cup {None}, let : Texts \cup {None},
     wrote : SUBSET Writes]

Idle == [stage |-> "idle", kind |-> None, force |-> FALSE, tone |-> None, switch |-> None,
         ver |-> None, text |-> None, template |-> None, let |-> None, wrote |-> {}]

TypeOK ==
    /\ extracted \in BOOLEAN
    /\ rows \in [Versions -> Row \cup {None}]
    /\ letters \in [Versions -> [Tones -> Texts \cup {None}]]
    /\ docs \in [Versions -> 0 .. 2]
    /\ letterDocs \in [Versions -> SUBSET Tones]
    /\ pdf \in [Versions -> Shown \cup {None}]
    /\ letterPdf \in [Versions -> [Tones -> Texts \cup {None}]]
    /\ apps \in [Versions -> 0 .. 2]
    /\ req \in [Requests -> Request]

Init ==
    /\ extracted = FALSE
    /\ rows = [v \in Versions |-> None]
    /\ letters = [v \in Versions |-> [w \in Tones |-> None]]
    /\ docs = [v \in Versions |-> 0]
    /\ letterDocs = [v \in Versions |-> {}]
    /\ pdf = [v \in Versions |-> None]
    /\ letterPdf = [v \in Versions |-> [w \in Tones |-> None]]
    /\ apps = [v \in Versions |-> 0]
    /\ req = [r \in Requests |-> Idle]

OneMore(n) == IF n = 0 THEN 1 ELSE 2

Live == {v \in Versions : rows[v] # None /\ rows[v].live}
Unused == {v \in Versions : rows[v] = None}

-----------------------------------------------------------------------------
(* The other requests whose uncommitted writes r waits for when it comes   *)
(* to write the same: the job target, its version row, a version of its    *)
(* own, its letter.                                                        *)

Others(r) == Requests \ {r}
JobHolders(r) == {o \in Others(r) : "job" \in req[o].wrote}
RowHolders(r) ==
    {o \in Others(r) :
        req[o].ver = req[r].ver /\ req[o].wrote \cap {"text", "template"} # {}}
InsertHolders(r) == {o \in Others(r) : "insert" \in req[o].wrote}
LetterHolders(r) ==
    {o \in Others(r) :
        "letter" \in req[o].wrote /\ req[o].ver = req[r].ver /\ req[o].tone = req[r].tone}

(* The tables once r's flushed writes are committed: only the columns the  *)
(* session changed are written.                                            *)
WrittenRow(r) ==
    LET q == req[r]
        old == rows[q.ver]
    IN  [text     |-> IF q.wrote \cap {"insert", "text"} # {} THEN q.text ELSE old.text,
         template |-> IF q.wrote \cap {"insert", "template"} # {}
                      THEN q.template ELSE old.template,
         live     |-> IF "insert" \in q.wrote THEN TRUE ELSE old.live]

CommitRow(r) ==
    rows' = IF req[r].wrote \cap {"insert", "text", "template"} # {}
            THEN [rows EXCEPT ![req[r].ver] = WrittenRow(r)] ELSE rows
CommitJob(r) == extracted' = (extracted \/ "job" \in req[r].wrote)
CommitLetterRow(r) ==
    letters' = IF "letter" \in req[r].wrote
               THEN [letters EXCEPT ![req[r].ver][req[r].tone] = req[r].let] ELSE letters

Go(r, stage) == req' = [req EXCEPT ![r].stage = stage]
End(r) == req' = [req EXCEPT ![r] = Idle]

-----------------------------------------------------------------------------
(* Requests arrive. *)

Arrive(r, request) ==
    /\ req[r].stage = "idle"
    /\ request.kind \in Kinds
    /\ req' = [req EXCEPT ![r] = request]
    /\ UNCHANGED <<tables, store>>

\* Broken variant.
LoadedWithoutTemplate(v) == [Idle EXCEPT !.ver = v, !.text = rows[v].text]
Loaded(v) == [Idle EXCEPT !.ver = v, !.text = rows[v].text, !.template = rows[v].template]

(* Where a kind of request goes on once it has the requirements. *)
Onward == [kit |-> "loading", tailor |-> "tailoring", letter |-> "writing"]
AfterExtraction(kind) == IF extracted THEN Onward[kind] ELSE "extracting"

(* POST kit *)
KitBegin(r, force, tone, switch) ==
    Arrive(r, [Idle EXCEPT !.stage = AfterExtraction("kit"), !.kind = "kit",
                                  !.force = force, !.tone = tone, !.switch = switch])

(* POST tailor *)
TailorBegin(r) ==
    Arrive(r, [Idle EXCEPT !.stage = AfterExtraction("tailor"),
                                     !.kind = "tailor"])

(* POST render to "pdf" or "docx", of a version that is not deleted; it    *)
(* always renders.                                                         *)
RenderBegin(r, v, kind, switch) ==
    /\ v \in Live
    /\ Arrive(r, [Loaded(v) EXCEPT !.stage = "pdf", !.kind = kind,
                                             !.force = TRUE, !.switch = switch])

(* POST cover-letter; it always inserts. *)
LetterBegin(r, v, tone) ==
    /\ v \in Live
    /\ Arrive(r, [Loaded(v) EXCEPT !.stage = AfterExtraction("letter"),
                                             !.kind = "letter", !.tone = tone])

(* POST render of a cover letter *)
LetterRenderBegin(r, v, tone, switch) ==
    /\ v \in Live
    /\ letters[v][tone] # None
    /\ Arrive(r, [Loaded(v) EXCEPT !.stage = "letterpdf", !.force = TRUE,
                                  !.kind = "letterrender", !.tone = tone,
                                  !.switch = switch, !.let = letters[v][tone]])

(* DELETE of a version: refused at once when an application references it. *)
DeleteBegin(r, v) ==
    /\ v \in Live
    /\ apps[v] = 0
    /\ Arrive(r, [Loaded(v) EXCEPT !.stage = "deleting", !.kind = "delete"])

(* POST track: the application that exists is returned; there is none yet. *)
TrackBegin(r, v) ==
    /\ v \in Live
    /\ apps[v] = 0
    /\ Arrive(r, [Loaded(v) EXCEPT !.stage = "applying", !.kind = "track"])

(* POST applications *)
CreateBegin(r, v) ==
    /\ v \in Live
    /\ Arrive(r, [Loaded(v) EXCEPT !.stage = "applying", !.kind = "create"])

-----------------------------------------------------------------------------
(* The requirements and the tailored version. *)

(* The answer is flushed; the row stays locked until the next commit.      *)
Extract(r) ==
    /\ req[r].stage = "extracting"
    /\ JobHolders(r) = {}
    /\ req' = [req EXCEPT ![r].wrote = @ \cup {"job"},
                          ![r].stage = Onward[req[r].kind]]
    /\ UNCHANGED <<tables, store>>

LoadVersion(r) ==
    /\ req[r].stage = "loading"
    /\ \/ /\ Live = {}
          /\ Go(r, "tailoring")
       \/ \E v \in Live :
            req' = [req EXCEPT ![r].ver = v,
                               ![r].text = rows[v].text,
                               ![r].template = rows[v].template,
                               ![r].stage = IF req[r].force THEN "tailoring" ELSE "pdf"]
    /\ UNCHANGED <<tables, store>>

\* Broken variant.
CanInsertAnyway(r) == Unused # {}
CanInsert(r) == Live = {} /\ Unused # {} /\ InsertHolders(r) = {}

\* Broken variant.
TailoredThenExtracts(r, text) ==
    /\ req[r].stage = "tailoring"
    /\ req[r].kind = "kit"
    /\ req[r].ver # None
    /\ RowHolders(r) = {}
    /\ req' = [req EXCEPT ![r].text = text, ![r].wrote = @ \cup {"text"},
                          ![r].stage = "extracting"]
    /\ UNCHANGED <<tables, store>>

(* POST kit: the new text is flushed, as a new row or over the old one.    *)
Tailored(r, text) ==
    /\ req[r].stage = "tailoring"
    /\ req[r].kind = "kit"
    /\ \/ /\ req[r].ver # None
          /\ RowHolders(r) = {}
          /\ req' = [req EXCEPT ![r].text = text,
                                ![r].wrote = @ \cup {"text"},
                                ![r].stage = "pdf"]
       \/ /\ req[r].ver = None
          /\ CanInsert(r)
          /\ req' = [req EXCEPT ![r].ver = CHOOSE v \in Unused : TRUE,
                                ![r].text = text,
                                ![r].template = Classic,
                                ![r].wrote = @ \cup {"insert"},
                                ![r].stage = "pdf"]
    /\ UNCHANGED <<tables, store>>

(* POST tailor: inserted and committed at once.                            *)
TailorCommits(r, text) ==
    /\ req[r].stage = "tailoring"
    /\ req[r].kind = "tailor"
    /\ CanInsert(r)
    /\ rows' = [rows EXCEPT ![CHOOSE v \in Unused : TRUE] =
                  [text |-> text, template |-> Classic, live |-> TRUE]]
    /\ CommitJob(r)
    /\ End(r)
    /\ UNCHANGED <<letters, docs, letterDocs, apps, store>>

\* Broken variant.
InsertRetried(r) ==
    /\ req[r].stage = "tailoring"
    /\ req[r].ver = None
    /\ InsertHolders(r) = {}
    /\ Live # {}
    /\ UNCHANGED vars

(* The partial unique index: one live version per profile and job target.  *)
InsertRefused(r) ==
    /\ req[r].stage = "tailoring"
    /\ req[r].ver = None
    /\ InsertHolders(r) = {}
    /\ Live # {}
    /\ End(r)
    /\ UNCHANGED <<tables, store>>

-----------------------------------------------------------------------------
(* The resume PDF. *)

Rerenders(r) ==
    \/ req[r].force
    \/ req[r].switch # None /\ req[r].switch # req[r].template

(* The document that is there is served. *)
PdfThere(r) ==
    /\ req[r].stage = "pdf"
    /\ ~ Rerenders(r)
    /\ docs[req[r].ver] = 1
    /\ Go(r, "letter")
    /\ UNCHANGED <<tables, store>>

(* scalar_one_or_none() raises when there are several. *)
PdfAmbiguous(r) ==
    /\ req[r].stage = "pdf"
    /\ ~ Rerenders(r)
    /\ docs[req[r].ver] = 2
    /\ End(r)
    /\ UNCHANGED <<tables, store>>

(* The template that is rendered, and whether the row has to be told. *)
Chosen(r) == IF req[r].switch # None THEN req[r].switch ELSE req[r].template
Switches(r) == Chosen(r) # req[r].template

(* The template choice is flushed when it is another one, and the row goes *)
(* on to the given stage.                                                  *)
FlushTemplate(r, stage) ==
    /\ Switches(r) => RowHolders(r) = {}
    /\ req' = [req EXCEPT ![r].template = Chosen(r),
                          ![r].wrote = IF Switches(r) THEN @ \cup {"template"} ELSE @,
                          ![r].stage = stage]

\* Broken variant.
UploadIgnored(r) ==
    /\ req[r].stage = "pdf"
    /\ Rerenders(r) \/ docs[req[r].ver] = 0
    /\ FlushTemplate(r, "put")
    /\ UNCHANGED <<tables, store>>

(* The PDF is rendered and uploaded.  A docx goes to a key of its own. *)
PutPdf(r) ==
    /\ req[r].stage = "pdf"
    /\ Rerenders(r) \/ docs[req[r].ver] = 0
    /\ FlushTemplate(r, "put")
    /\ pdf' = IF req[r].kind = "docx" THEN pdf
              ELSE [pdf EXCEPT ![req[r].ver] =
                      [text |-> req[r].text, template |-> Chosen(r)]]
    /\ UNCHANGED <<tables, letterPdf>>

(* The documents row, and everything flushed before it. *)
CommitPdf(r) ==
    /\ req[r].stage = "put"
    /\ CommitJob(r)
    /\ CommitRow(r)
    /\ docs' = IF req[r].kind = "docx" THEN docs
               ELSE [docs EXCEPT ![req[r].ver] = OneMore(@)]
    /\ IF req[r].kind = "kit"
       THEN req' = [req EXCEPT ![r].wrote = {}, ![r].stage = "letter"]
       ELSE End(r)
    /\ UNCHANGED <<letters, letterDocs, apps, store>>

-----------------------------------------------------------------------------
(* The cover letter and its PDF. *)

LoadLetter(r) ==
    /\ req[r].stage = "letter"
    /\ LET row == letters[req[r].ver][req[r].tone]
       IN  req' = [req EXCEPT
             ![r].let = row,
             ![r].stage = IF row # None /\ ~ req[r].force THEN "letterpdf" ELSE "writing"]
    /\ UNCHANGED <<tables, store>>

(* Nobody else is about to write the letter, and it is there or not as the *)
(* session believes.                                                       *)
CanWriteLetter(r) ==
    /\ LetterHolders(r) = {}
    /\ req[r].let # None \/ letters[req[r].ver][req[r].tone] = None

\* Broken variant.
LetterNotAdded(r) ==
    /\ req[r].stage = "writing"
    /\ req[r].kind = "kit"
    /\ CanWriteLetter(r)
    /\ req' = [req EXCEPT ![r].let = req[r].text, ![r].stage = "letterpdf"]
    /\ UNCHANGED <<tables, store>>

(* POST kit: a letter that passed verification is flushed. *)
LetterWritten(r) ==
    /\ req[r].stage = "writing"
    /\ req[r].kind = "kit"
    /\ CanWriteLetter(r)
    /\ req' = [req EXCEPT ![r].let = req[r].text,
                          ![r].wrote = @ \cup {"letter"},
                          ![r].stage = "letterpdf"]
    /\ UNCHANGED <<tables, store>>

(* POST cover-letter: inserted and committed at once. *)
LetterCommits(r) ==
    /\ req[r].stage = "writing"
    /\ req[r].kind = "letter"
    /\ CanWriteLetter(r)
    /\ letters' = [letters EXCEPT ![req[r].ver][req[r].tone] = req[r].text]
    /\ CommitJob(r)
    /\ End(r)
    /\ UNCHANGED <<rows, docs, letterDocs, apps, store>>

(* The unique key: one letter per job target, version and tone. *)
LetterRefused(r) ==
    /\ req[r].stage = "writing"
    /\ LetterHolders(r) = {}
    /\ req[r].let = None
    /\ letters[req[r].ver][req[r].tone] # None
    /\ End(r)
    /\ UNCHANGED <<tables, store>>

(* A documents row whose key names the letter. *)
LetterHasPdf(v, tone) == tone \in letterDocs[v]

(* The letter's PDF is there: only the requirements are left to commit. *)
LetterPdfThere(r) ==
    /\ req[r].stage = "letterpdf"
    /\ ~ req[r].force
    /\ LetterHasPdf(req[r].ver, req[r].tone)
    /\ CommitJob(r)
    /\ End(r)
    /\ UNCHANGED <<rows, letters, docs, letterDocs, apps, store>>

(* The kit renders its letter as the version is; the endpoint of its own   *)
(* may switch the version's template.                                      *)
PutLetter(r) ==
    /\ req[r].stage = "letterpdf"
    /\ req[r].force \/ ~ LetterHasPdf(req[r].ver, req[r].tone)
    /\ letterPdf' = [letterPdf EXCEPT ![req[r].ver][req[r].tone] = req[r].let]
    /\ IF req[r].kind = "letterrender" THEN FlushTemplate(r, "letterput")
       ELSE Go(r, "letterput")
    /\ UNCHANGED <<tables, pdf>>

CommitLetter(r) ==
    /\ req[r].stage = "letterput"
    /\ CommitJob(r)
    /\ CommitRow(r)
    /\ CommitLetterRow(r)
    /\ letterDocs' = [letterDocs EXCEPT ![req[r].ver] = @ \cup {req[r].tone}]
    /\ End(r)
    /\ UNCHANGED <<docs, apps, store>>

-----------------------------------------------------------------------------
(* Applications, and deleting a version. *)

ApplyCommit(r) ==
    /\ req[r].stage = "applying"
    /\ apps' = [apps EXCEPT ![req[r].ver] = OneMore(@)]
    /\ End(r)
    /\ UNCHANGED <<extracted, rows, letters, docs, letterDocs, store>>

DeleteCommit(r) ==
    /\ req[r].stage = "deleting"
    /\ RowHolders(r) = {}
    /\ rows' = [rows EXCEPT ![req[r].ver].live = FALSE]
    /\ End(r)
    /\ UNCHANGED <<extracted, letters, docs, letterDocs, apps, store>>

\* Broken variant.
FailsButCommits(r) ==
    /\ req[r].stage # "idle"
    /\ CommitRow(r)
    /\ End(r)
    /\ UNCHANGED <<extracted, letters, docs, letterDocs, apps, store>>

(* A call to the LLM or to S3 fails, the letter does not pass verification *)
(* twice, or the process dies: what was not committed is gone.             *)
Fails(r) ==
    /\ req[r].stage # "idle"
    /\ End(r)
    /\ UNCHANGED <<tables, store>>

-----------------------------------------------------------------------------
Begin(r) ==
    \/ \E force \in BOOLEAN, tone \in Tones, switch \in Templates \cup {None} :
         KitBegin(r, force, tone, switch)
    \/ TailorBegin(r)
    \/ \E v \in Versions :
         \/ \E switch \in Templates \cup {None} :
              \/ RenderBegin(r, v, "render", switch)
              \/ RenderBegin(r, v, "docx", switch)
              \/ \E tone \in Tones : LetterRenderBegin(r, v, tone, switch)
         \/ \E tone \in Tones : LetterBegin(r, v, tone)
         \/ DeleteBegin(r, v)
         \/ TrackBegin(r, v)
         \/ CreateBegin(r, v)

Step(r) ==
    \/ Extract(r)
    \/ LoadVersion(r)
    \/ \E text \in Texts : Tailored(r, text) \/ TailorCommits(r, text)
    \/ InsertRefused(r)
    \/ PdfThere(r) \/ PdfAmbiguous(r) \/ PutPdf(r) \/ CommitPdf(r)
    \/ LoadLetter(r)
    \/ LetterWritten(r) \/ LetterCommits(r) \/ LetterRefused(r)
    \/ LetterPdfThere(r) \/ PutLetter(r) \/ CommitLetter(r)
    \/ ApplyCommit(r)
    \/ DeleteCommit(r)

Next == \E r \in Requests : Begin(r) \/ Step(r) \/ Fails(r)

Spec == Init /\ [][Next]_vars

(* A request goes on when no lock stops it, the calls it awaits have       *)
(* timeouts; PostgreSQL grants a row lock in the order it was asked for,   *)
(* so a request is not overtaken for ever: strong fairness.                *)
FairSpec == Spec /\ \A r \in Requests : SF_vars(Step(r))

-----------------------------------------------------------------------------
(* Properties. *)

(* No download link is dead: every documents row has its object in S3,     *)
(* wherever a request died.                                                *)
DocsHaveObjects ==
    \A v \in Versions :
        /\ docs[v] # 0 => pdf[v] # None
        /\ \A w \in letterDocs[v] : letterPdf[v][w] # None

(* There is one live version of a job target, and a document belongs to a  *)
(* version that was committed with it or before.                           *)
OneLiveVersion ==
    /\ \A u, v \in Live : u = v
    /\ \A v \in Unused : docs[v] = 0 /\ letterDocs[v] = {} /\ apps[v] = 0

(* What a session has in memory, per kind of request and stage. *)
Holding == {"pdf", "put", "letter", "writing", "letterpdf", "letterput", "deleting",
            "applying"}
SessionShape(q) ==
    /\ q.stage = "extracting" => q.kind \in {"kit", "tailor", "letter"}
    /\ q.stage = "loading" => q.kind = "kit" /\ q.ver = None
    /\ q.stage = "extracting" /\ q.kind # "letter" => q.ver = None
    /\ q.stage = "tailoring" /\ q.ver # None => q.force
    /\ q.stage = "tailoring" => q.kind \in {"kit", "tailor"}
    /\ q.stage \in Holding => q.ver # None
    /\ q.kind = "letter" => q.ver # None
    /\ q.kind \in {"kit", "letter", "letterrender"} => q.tone # None
    /\ q.stage \in {"letter", "writing", "letterpdf", "letterput"} => q.tone # None
    /\ q.stage \in {"letterpdf", "letterput"} => q.let # None
    /\ q.stage \in {"pdf", "put"} => q.kind \in {"kit", "render", "docx"}
    /\ q.ver # None => q.text # None /\ q.template # None
    /\ q.wrote \cap {"insert", "text"} # {} => q.kind = "kit" /\ q.stage \in {"pdf", "put"}
    /\ "letter" \in q.wrote => q.stage \in {"letterpdf", "letterput"}
    /\ q.kind \in {"render", "docx"} \/ "text" \in q.wrote => q.force
    /\ "template" \in q.wrote => q.stage \in {"put", "letterput"}

(* What it has in memory is in the tables, or is the row it inserts itself *)
(* while nobody else can; what it uploaded is there before its commit.     *)
SessionsCoherent ==
    \A r \in Requests :
        /\ SessionShape(req[r])
        /\ req[r].ver # None => (rows[req[r].ver] = None <=> "insert" \in req[r].wrote)
        /\ "insert" \in req[r].wrote => Live = {} /\ InsertHolders(r) = {}
        /\ req[r].stage = "put" /\ req[r].kind # "docx" => pdf[req[r].ver] # None
        /\ req[r].stage = "letterput" => letterPdf[req[r].ver][req[r].tone] # None

(* The inductive invariant. *)
IndInv == TypeOK /\ DocsHaveObjects /\ OneLiveVersion /\ SessionsCoherent

(* A version's text is only ever replaced by a regeneration that goes      *)
(* through: a forced POST kit that has uploaded its PDF of the new text    *)
(* commits the text together with one more documents row, and one that     *)
(* dies before leaves the row as it was.  What the object under the        *)
(* version's key shows is another matter: it is the latest upload, which   *)
(* may be that of a render that had loaded the text before, or of a        *)
(* regeneration that died.                                                 *)
RewritesComeWithDocuments ==
    [][\A v \in Versions :
         rows[v] # None /\ rows'[v].text # rows[v].text =>
             /\ docs'[v] = OneMore(docs[v]) /\ pdf[v] # None
             /\ \E r \in Requests :
                  /\ req[r].kind = "kit" /\ req[r].force /\ req[r].stage = "put"
                  /\ req[r].ver = v /\ req[r].text = rows'[v].text]_rows

(* GET kit reports these pieces as missing of a version that is live.      *)
MissingPieces(v) ==
    LET there == [requirements     |-> extracted,
                  resume_pdf       |-> docs[v] # 0,
                  cover_letter     |-> letters[v][Standard] # None,
                  cover_letter_pdf |-> letters[v][Standard] = None
                                       \/ LetterHasPdf(v, Standard)]
    IN  {piece \in DOMAIN there : ~ there[piece]}

(* Where POST kit answers, GET kit misses nothing of what it delivered,    *)
(* through whichever commits the pieces came there and whoever made them;  *)
(* only a version that was deleted meanwhile is gone.                      *)
KitIsDelivered ==
    [][\A r \in Requests, v \in Live :
         /\ req[r].kind = "kit" /\ req[r].tone = Standard /\ req[r].ver = v
         /\ CommitLetter(r) \/ LetterPdfThere(r)
         => MissingPieces(v)' = {}]_vars

(* Whether r is about to write its version's row, and whom it waits for.   *)
WritesRow(r) ==
    \/ req[r].stage = "tailoring" /\ req[r].ver # None
    \/ req[r].stage = "pdf" /\ Switches(r)
    \/ req[r].stage = "letterpdf" /\ req[r].kind = "letterrender" /\ Switches(r)
    \/ req[r].stage = "deleting"
WaitsFor(r) ==
    {o \in Others(r) :
        \/ req[r].stage = "extracting" /\ o \in JobHolders(r)
        \/ WritesRow(r) /\ o \in RowHolders(r)
        \/ req[r].stage = "tailoring" /\ req[r].ver = None /\ o \in InsertHolders(r)
        \/ req[r].stage = "writing" /\ o \in LetterHolders(r)}

(* Requests keep their locks over LLM calls, rendering and uploads, and    *)
(* take them in an order: job target, then version or letter.  Among any   *)
(* requests there is one that waits for none of them.                      *)
NobodyWaitsInACircle ==
    \A some \in SUBSET Requests :
        some # {} => \E r \in some : WaitsFor(r) \cap some = {}

(* Every request ends.                                                     *)
RequestsEnd ==
    \A r \in Requests : req[r].stage # "idle" ~> req[r].stage = "idle"

(* kit.py:489 "exactly what went out, with download URLs": a version's     *)
(* resume PDF can be looked up, which is what GET kit, the kit view and an *)
(* unforced POST kit begin with.                                           *)
KitStaysReadable == \A v \in Live : docs[v] # 2
=============================================================================
