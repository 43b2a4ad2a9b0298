------------------------------- MODULE KitProofs --------------------------------
(***************************************************************************)
(* What holds of the apply kit for any number of concurrent requests,      *)
(* versions, texts, templates and tones.                                   *)
(***************************************************************************)
EXTENDS Kit, TLAPS

(* The empty tables and resting sessions satisfy the inductive invariant.  *)
LEMMA InitInductive == Init => IndInv
<1> SUFFICES ASSUME Init PROVE IndInv
  OBVIOUS
<1> USE KitAssumption DEF Init
<1>1. Idle \in Request
  BY DEF Idle, Request, Stages, Writes
<1>2. TypeOK
  <2>1. [w \in Tones |-> None] \in [Tones -> Texts \cup {None}]
    OBVIOUS
  <2>2. letters \in [Versions -> [Tones -> Texts \cup {None}]]
        /\ letterPdf \in [Versions -> [Tones -> Texts \cup {None}]]
    BY <2>1 DEF Init
  <2>3. extracted \in BOOLEAN
    BY Zenon
  <2>4. /\ rows \in [Versions -> Row \cup {None}]
        /\ docs \in [Versions -> 0 .. 2]
        /\ letterDocs \in [Versions -> SUBSET Tones]
        /\ pdf \in [Versions -> Shown \cup {None}]
        /\ apps \in [Versions -> 0 .. 2]
    OBVIOUS
  <2>5. req \in [Requests -> Request]
    BY <1>1
  <2> QED
    BY <2>2, <2>3, <2>4, <2>5 DEF TypeOK
<1>3. DocsHaveObjects /\ OneLiveVersion
  BY DEF DocsHaveObjects, OneLiveVersion, Live, Unused
<1>4. SessionsCoherent
  BY DEF SessionsCoherent, SessionShape, Idle, Holding, AllKinds, InsertHolders, Others
<1> QED
  BY <1>2, <1>3, <1>4 DEF IndInv

(* A session that ends leaves the others as coherent as they were.         *)
LEMMA EndKeepsSessions ==
    ASSUME IndInv, NEW r \in Requests, End(r),
           UNCHANGED rows, UNCHANGED pdf, UNCHANGED letterPdf
    PROVE  SessionsCoherent' /\ req' \in [Requests -> Request]
<1> USE KitAssumption DEF IndInv
<1>1. Idle \in Request /\ SessionShape(Idle)
  BY DEF Idle, Request, Stages, Writes, SessionShape, Holding, AllKinds
<1>2. req' \in [Requests -> Request] /\ req'[r] = Idle
      /\ \A o \in Requests \ {r} : req'[o] = req[o]
  BY <1>1 DEF End, TypeOK
<1>3. Live' = Live
  BY DEF Live
<1>4. \A o \in Requests : InsertHolders(o)' \subseteq InsertHolders(o)
  BY <1>2 DEF InsertHolders, Others, Idle
<1>5. SessionsCoherent'
  BY <1>1, <1>2, <1>3, <1>4 DEF SessionsCoherent, SessionShape, Idle
<1> QED
  BY <1>2, <1>5

(* The lemma for a session that goes on without inserting: only its own    *)
(* shape has to be looked at.                                              *)
LEMMA GoesOn ==
    ASSUME IndInv, NEW r \in Requests, NEW q \in Request,
           req' = [req EXCEPT ![r] = q],
           UNCHANGED rows,
           \A v \in Versions : pdf[v] # None => pdf'[v] # None,
           \A v \in Versions, w \in Tones : letterPdf[v][w] # None => letterPdf'[v][w] # None,
           SessionShape(q),
           "insert" \in q.wrote <=> "insert" \in req[r].wrote,
           q.ver # req[r].ver => q.ver = None \/ rows[q.ver] # None,
           "insert" \in req[r].wrote => q.ver = req[r].ver,
           q.stage = "put" /\ q.kind # "docx" => pdf'[q.ver] # None,
           q.stage = "letterput" => letterPdf'[q.ver][q.tone] # None
    PROVE  SessionsCoherent' /\ req' \in [Requests -> Request]
<1> USE KitAssumption DEF IndInv
<1>1. req' \in [Requests -> Request] /\ req'[r] = q
      /\ \A o \in Requests \ {r} : req'[o] = req[o]
  BY DEF TypeOK
<1>2. Live' = Live
  BY DEF Live
<1>3. \A o \in Requests : InsertHolders(o)' = InsertHolders(o)
  BY <1>1 DEF InsertHolders, Others
<1>4. \A o \in Requests \ {r} :
        /\ SessionShape(req'[o])
        /\ req'[o].ver # None => (rows'[req'[o].ver] = None <=> "insert" \in req'[o].wrote)
        /\ "insert" \in req'[o].wrote => Live' = {} /\ InsertHolders(o)' = {}
    BY <1>1, <1>2, <1>3 DEF SessionsCoherent
<1>5. \A o \in Requests \ {r} : req[o].stage \in Holding => req[o].ver \in Versions
  BY DEF SessionsCoherent, SessionShape, TypeOK, Request
<1>6. \A o \in Requests \ {r} :
        /\ req'[o].stage = "put" /\ req'[o].kind # "docx" => pdf'[req'[o].ver] # None
        /\ req'[o].stage = "letterput" => letterPdf'[req'[o].ver][req'[o].tone] # None
  <2> SUFFICES ASSUME NEW o \in Requests \ {r}
               PROVE  /\ req[o].stage = "put" /\ req[o].kind # "docx" => pdf'[req[o].ver] # None
                      /\ req[o].stage = "letterput" => letterPdf'[req[o].ver][req[o].tone] # None
    BY <1>1
  <2>1. req[o].stage = "put" /\ req[o].kind # "docx" =>
          req[o].ver \in Versions /\ pdf[req[o].ver] # None
    BY <1>5 DEF SessionsCoherent, Holding
  <2>2. req[o].stage = "letterput" =>
          /\ req[o].ver \in Versions /\ req[o].tone \in Tones
          /\ letterPdf[req[o].ver][req[o].tone] # None
    BY <1>5 DEF SessionsCoherent, Holding, SessionShape, TypeOK, Request
  <2> QED
    BY <2>1, <2>2
<1>7. /\ q.ver # None => (rows'[q.ver] = None <=> "insert" \in q.wrote)
      /\ "insert" \in q.wrote => Live' = {} /\ InsertHolders(r)' = {}
  BY <1>2, <1>3 DEF SessionsCoherent
<1>8. SessionsCoherent'
  BY <1>1, <1>4, <1>6, <1>7 DEF SessionsCoherent
<1> QED
  BY <1>1, <1>8

(* With the tables and the object store as they were, the sessions are all *)
(* there is to look at.                                                    *)
LEMMA TablesKept ==
    ASSUME IndInv, UNCHANGED <<tables, store>>, SessionsCoherent',
           req' \in [Requests -> Request]
    PROVE  IndInv'
<1> USE DEF IndInv, tables, store
<1>1. TypeOK'
  BY DEF TypeOK
<1>2. DocsHaveObjects' /\ OneLiveVersion'
  BY DEF DocsHaveObjects, OneLiveVersion, Live, Unused
<1> QED
  BY <1>1, <1>2

(* A request that arrives has read committed rows only. *)
LEMMA ArriveInductive ==
    ASSUME IndInv, NEW r \in Requests, NEW q \in Request, Arrive(r, q),
           SessionShape(q), q.wrote = {}, q.stage \notin {"put", "letterput"},
           q.ver = None \/ q.ver \in Live
    PROVE  IndInv'
<1>1. /\ req' = [req EXCEPT ![r] = q]
      /\ UNCHANGED <<tables, store>>
      /\ req[r].stage = "idle"
  BY DEF Arrive
<1>2. "insert" \notin req[r].wrote
  BY <1>1 DEF IndInv, SessionsCoherent, SessionShape, TypeOK, Request
<1>3. q.ver # req[r].ver => q.ver = None \/ rows[q.ver] # None
  BY DEF Live
<1>4. UNCHANGED <<rows, pdf, letterPdf>>
  BY <1>1 DEF tables, store
<1>5. SessionsCoherent' /\ req' \in [Requests -> Request]
  BY <1>1, <1>2, <1>3, <1>4, GoesOn
<1> QED
  BY <1>1, <1>5, TablesKept

(* What a request has loaded of a live version. *)
LEMMA LoadedShape ==
    ASSUME IndInv, NEW v \in Live
    PROVE  /\ Loaded(v) \in Request
           /\ Loaded(v).ver = v /\ v # None /\ v \in Versions
           /\ Loaded(v).text # None /\ Loaded(v).template # None
           /\ Loaded(v).wrote = {}
<1> USE KitAssumption DEF IndInv, TypeOK, Live
<1>1. v \in Versions /\ v # None /\ rows[v] \in Row
  OBVIOUS
<1>2. rows[v].text \in Texts /\ rows[v].template \in Templates
  BY <1>1 DEF Row
<1>3. Idle \in Request
  BY DEF Idle, Request, Stages, Writes
<1> QED
  BY <1>1, <1>2, <1>3 DEF Loaded, Idle, Request

(* Requests arrive coherent. *)
LEMMA BeginInductive ==
    ASSUME IndInv, NEW r \in Requests, Begin(r)
    PROVE  IndInv'
<1> USE KitAssumption
<1>1. ASSUME NEW force \in BOOLEAN, NEW tone \in Tones, NEW switch \in Templates \cup {None},
             KitBegin(r, force, tone, switch)
      PROVE  IndInv'
  <2> DEFINE q == [Idle EXCEPT !.stage = AfterExtraction("kit"), !.kind = "kit",
                               !.force = force, !.tone = tone, !.switch = switch]
  <2>1. q \in Request
    BY DEF Idle, Request, Stages, Writes, AfterExtraction, Onward, AllKinds
  <2>2. SessionShape(q) /\ q.wrote = {} /\ q.stage \notin {"put", "letterput"} /\ q.ver = None
    BY DEF SessionShape, Idle, Holding, AfterExtraction, Onward
  <2> HIDE DEF q
  <2> QED
    BY <1>1, <2>1, <2>2, ArriveInductive DEF KitBegin, q
<1>2. ASSUME TailorBegin(r) PROVE IndInv'
  <2> DEFINE q == [Idle EXCEPT !.stage = AfterExtraction("tailor"), !.kind = "tailor"]
  <2>1. q \in Request
    BY DEF Idle, Request, Stages, Writes, AfterExtraction, Onward, AllKinds
  <2>2. SessionShape(q) /\ q.wrote = {} /\ q.stage \notin {"put", "letterput"} /\ q.ver = None
    BY DEF SessionShape, Idle, Holding, AfterExtraction, Onward
  <2> HIDE DEF q
  <2> QED
    BY <1>2, <2>1, <2>2, ArriveInductive DEF TailorBegin, q
<1>3. ASSUME NEW v \in Versions, NEW switch \in Templates \cup {None},
             NEW kind \in {"render", "docx"}, RenderBegin(r, v, kind, switch)
      PROVE  IndInv'
  <2> DEFINE q == [Loaded(v) EXCEPT !.stage = "pdf", !.kind = kind, !.force = TRUE,
                                    !.switch = switch]
  <2>1. v \in Live /\ Arrive(r, q)
    BY <1>3 DEF RenderBegin
  <2>1a. /\ Loaded(v) \in Request /\ v # None
        /\ Loaded(v).ver = v /\ Loaded(v).text # None /\ Loaded(v).template # None
        /\ Loaded(v).wrote = {}
    BY <2>1, LoadedShape
  <2>2. q \in Request
    BY <2>1a DEF Request, Stages, AllKinds
  <2>3. /\ q.stage = "pdf" /\ q.kind = kind /\ q.force = TRUE
        /\ q.ver = v /\ q.text # None /\ q.template # None /\ q.wrote = {}
    BY <2>1a DEF Request
  <2> HIDE DEF q
  <2>4. SessionShape(q)
    BY <2>1, <2>3, <2>1a DEF SessionShape, Holding
  <2> QED
    BY <2>1, <2>2, <2>3, <2>4, ArriveInductive
<1>4. ASSUME NEW v \in Versions, NEW tone \in Tones, LetterBegin(r, v, tone)
      PROVE  IndInv'
  <2> DEFINE q == [Loaded(v) EXCEPT !.stage = AfterExtraction("letter"),
                                    !.kind = "letter", !.tone = tone]
  <2>1. v \in Live /\ Arrive(r, q)
    BY <1>4 DEF LetterBegin
  <2>1a. /\ Loaded(v) \in Request /\ v # None
        /\ Loaded(v).ver = v /\ Loaded(v).text # None /\ Loaded(v).template # None
        /\ Loaded(v).wrote = {}
    BY <2>1, LoadedShape
  <2>2. q \in Request
    BY <2>1a DEF Request, Stages, AllKinds, AfterExtraction, Onward
  <2>3. /\ q.stage \in {"writing", "extracting"} /\ q.kind = "letter" /\ q.tone = tone
        /\ q.ver = v /\ q.text # None /\ q.template # None /\ q.wrote = {}
    BY <2>1a DEF Request, AfterExtraction, Onward
  <2> HIDE DEF q
  <2>4. SessionShape(q)
    BY <2>1, <2>3, <2>1a DEF SessionShape, Holding
  <2> QED
    BY <2>1, <2>2, <2>3, <2>4, ArriveInductive
<1>5. ASSUME NEW v \in Versions, NEW tone \in Tones, NEW switch \in Templates \cup {None},
             LetterRenderBegin(r, v, tone, switch)
      PROVE  IndInv'
  <2> DEFINE q == [Loaded(v) EXCEPT !.stage = "letterpdf", !.force = TRUE,
                                    !.kind = "letterrender", !.tone = tone,
                                    !.switch = switch, !.let = letters[v][tone]]
  <2>1. v \in Live /\ letters[v][tone] # None /\ Arrive(r, q)
    BY <1>5 DEF LetterRenderBegin
  <2>2. letters[v][tone] \in Texts
    BY <2>1 DEF IndInv, TypeOK
  <2>1a. /\ Loaded(v) \in Request /\ v # None
        /\ Loaded(v).ver = v /\ Loaded(v).text # None /\ Loaded(v).template # None
        /\ Loaded(v).wrote = {}
    BY <2>1, LoadedShape
  <2>3. q \in Request
    BY <2>1, <2>2, <2>1a DEF Request, Stages, AllKinds
  <2>4. /\ q.stage = "letterpdf" /\ q.kind = "letterrender" /\ q.tone = tone
        /\ q.let = letters[v][tone]
        /\ q.ver = v /\ q.text # None /\ q.template # None /\ q.wrote = {}
    BY <2>1a DEF Request
  <2> HIDE DEF q
  <2>5. SessionShape(q)
    BY <2>1, <2>4, <2>1a DEF SessionShape, Holding
  <2> QED
    BY <2>1, <2>3, <2>4, <2>5, ArriveInductive
<1>6. ASSUME NEW v \in Versions, DeleteBegin(r, v) \/ TrackBegin(r, v) \/ CreateBegin(r, v)
      PROVE  IndInv'
  <2>1. PICK stage \in {"deleting", "applying"}, kind \in {"delete", "track", "create"} :
          v \in Live /\ Arrive(r, [Loaded(v) EXCEPT !.stage = stage, !.kind = kind])
    BY <1>6 DEF DeleteBegin, TrackBegin, CreateBegin
  <2> DEFINE q == [Loaded(v) EXCEPT !.stage = stage, !.kind = kind]
  <2>1a. /\ Loaded(v) \in Request /\ v # None
        /\ Loaded(v).ver = v /\ Loaded(v).text # None /\ Loaded(v).template # None
        /\ Loaded(v).wrote = {}
    BY <2>1, LoadedShape
  <2>2. q \in Request
    BY <2>1a DEF Request, Stages, AllKinds
  <2>3. /\ q.stage = stage /\ q.kind = kind
        /\ q.ver = v /\ q.text # None /\ q.template # None /\ q.wrote = {}
    BY <2>1a DEF Request
  <2>4. Arrive(r, q)
    BY <2>1
  <2> HIDE DEF q
  <2>5. SessionShape(q)
    BY <2>1, <2>3, <2>1a DEF SessionShape, Holding
  <2> QED
    BY <2>1, <2>2, <2>3, <2>4, <2>5, ArriveInductive
<1> QED
  BY <1>1, <1>2, <1>3, <1>4, <1>5, <1>6 DEF Begin

(* A session, as the invariant knows it. *)
LEMMA SessionKnown ==
    ASSUME IndInv, NEW r \in Requests
    PROVE  /\ req \in [Requests -> Request] /\ req[r] \in Request
           /\ SessionShape(req[r])
           /\ req[r].ver # None => (rows[req[r].ver] = None <=> "insert" \in req[r].wrote)
           /\ req[r].stage \in Holding => req[r].ver \in Versions /\ req[r].text \in Texts
                                         /\ req[r].template \in Templates
BY DEF IndInv, TypeOK, SessionsCoherent, SessionShape, Request

(* Steps that load, flush or decide, and leave the tables and S3 alone.    *)
LEMMA MemoryInductive ==
    ASSUME IndInv, NEW r \in Requests, NEW q \in Request,
           req' = [req EXCEPT ![r] = q],
           UNCHANGED <<tables, store>>,
           SessionShape(q),
           "insert" \in q.wrote <=> "insert" \in req[r].wrote,
           q.ver = req[r].ver \/ ("insert" \notin q.wrote /\ q.ver \in Live),
           q.stage \notin {"put", "letterput"}
    PROVE  IndInv'
<1>1. q.ver # req[r].ver => q.ver = None \/ rows[q.ver] # None
  BY DEF Live
<1>2. UNCHANGED <<rows, pdf, letterPdf>>
  BY DEF tables, store
<1>3. SessionsCoherent' /\ req' \in [Requests -> Request]
  BY <1>1, <1>2, GoesOn
<1> QED
  BY <1>3, TablesKept

LEMMA ExtractInductive == ASSUME IndInv, NEW r \in Requests, Extract(r) PROVE IndInv'
<1> DEFINE p == req[r]
           next == Onward[p.kind]
           q == [p EXCEPT !.wrote = @ \cup {"job"}, !.stage = next]
<1>1. req \in [Requests -> Request] /\ p \in Request /\ SessionShape(p)
      /\ p.stage = "extracting"
  BY SessionKnown DEF Extract
<1>2. /\ next \in {"loading", "tailoring", "writing"}
      /\ next = "loading" => p.kind = "kit"
      /\ next = "tailoring" => p.kind = "tailor"
      /\ next = "writing" => p.kind = "letter"
  BY <1>1 DEF SessionShape, Onward
<1> HIDE DEF next
<1>3. q \in Request
  BY <1>1, <1>2 DEF Request, Stages, Writes
<1>4. q.stage = next /\ q.wrote = p.wrote \cup {"job"}
  BY <1>1 DEF Request
<1>5. /\ q.kind = p.kind /\ q.ver = p.ver /\ q.text = p.text /\ q.template = p.template
      /\ q.tone = p.tone /\ q.let = p.let /\ q.force = p.force
  BY <1>1 DEF Request
<1>6. req' = [req EXCEPT ![r] = q] /\ UNCHANGED <<tables, store>>
  BY <1>1 DEF Extract, next
<1> HIDE DEF q
<1>7. SessionShape(q)
  BY <1>1, <1>2, <1>4, <1>5 DEF SessionShape, Holding
<1>8. ("insert" \in q.wrote <=> "insert" \in req[r].wrote) /\ q.ver = req[r].ver
  BY <1>4, <1>5
<1>9. q.stage \notin {"put", "letterput"}
  BY <1>2, <1>4
<1> QED
  BY <1>3, <1>6, <1>7, <1>8, <1>9, MemoryInductive

LEMMA LoadVersionInductive == ASSUME IndInv, NEW r \in Requests, LoadVersion(r) PROVE IndInv'
<1> DEFINE p == req[r]
<1>1. req \in [Requests -> Request] /\ p \in Request /\ SessionShape(p)
      /\ p.stage = "loading"
  BY SessionKnown DEF LoadVersion
<1>2. CASE Live = {} /\ Go(r, "tailoring")
  <2> DEFINE q == [p EXCEPT !.stage = "tailoring"]
  <2>1. q \in Request
    BY <1>1 DEF Request, Stages
  <2>2. /\ q.stage = "tailoring" /\ q.wrote = p.wrote
        /\ q.kind = p.kind /\ q.ver = p.ver /\ q.text = p.text /\ q.template = p.template
        /\ q.tone = p.tone /\ q.let = p.let /\ q.force = p.force
    BY <1>1 DEF Request
  <2>3. req' = [req EXCEPT ![r] = q] /\ UNCHANGED <<tables, store>>
    BY <1>1, <1>2 DEF Go, LoadVersion
  <2> HIDE DEF q
  <2>4. SessionShape(q)
    BY <1>1, <2>2 DEF SessionShape, Holding
  <2>5. ("insert" \in q.wrote <=> "insert" \in req[r].wrote) /\ q.ver = req[r].ver
    BY <2>2
  <2> QED
    BY <2>1, <2>2, <2>3, <2>4, <2>5, MemoryInductive
<1>3. ASSUME NEW v \in Live,
             req' = [req EXCEPT ![r].ver = v,
                                ![r].text = rows[v].text,
                                ![r].template = rows[v].template,
                                ![r].stage = IF req[r].force THEN "tailoring" ELSE "pdf"]
      PROVE  IndInv'
  <2> DEFINE next == IF p.force THEN "tailoring" ELSE "pdf"
             q == [p EXCEPT !.ver = v, !.text = rows[v].text, !.template = rows[v].template,
                            !.stage = next]
  <2>1. /\ v \in Versions /\ v # None
        /\ rows[v].text \in Texts /\ rows[v].template \in Templates
    <3>1. v \in Versions /\ rows[v] \in Row
      BY DEF Live, IndInv, TypeOK
    <3> QED
      BY <3>1, KitAssumption DEF Row
  <2>2. next \in {"tailoring", "pdf"} /\ (next = "tailoring" => p.force)
    OBVIOUS
  <2>3. q \in Request
    BY <1>1, <2>1 DEF Request, Stages
  <2>4. /\ q.stage = next /\ q.wrote = p.wrote
        /\ q.kind = p.kind /\ q.ver = v /\ q.text = rows[v].text
        /\ q.template = rows[v].template
        /\ q.tone = p.tone /\ q.let = p.let /\ q.force = p.force
    BY <1>1 DEF Request
  <2>5. req' = [req EXCEPT ![r] = q] /\ UNCHANGED <<tables, store>>
    BY <1>1, <1>3 DEF LoadVersion
  <2>6. rows[v].text # None /\ rows[v].template # None
    BY <2>1, KitAssumption
  <2> HIDE DEF q, next
  <2>7. SessionShape(q)
    BY <1>1, <2>1, <2>2, <2>4, <2>6 DEF SessionShape, Holding
  <2>8. "insert" \notin p.wrote
    BY <1>1 DEF SessionShape
  <2> QED
    BY <2>2, <2>3, <2>4, <2>5, <2>7, <2>8, MemoryInductive
<1> QED
  BY <1>2, <1>3 DEF LoadVersion

(* A row that is about to be inserted is the only one, and becomes live    *)
(* before any other can.                                                   *)
LEMMA TailoredInductive ==
    ASSUME IndInv, NEW r \in Requests, NEW text \in Texts, Tailored(r, text)
    PROVE  IndInv'
<1> DEFINE p == req[r]
<1>1. req \in [Requests -> Request] /\ p \in Request /\ SessionShape(p)
      /\ p.stage = "tailoring" /\ p.kind = "kit" /\ UNCHANGED <<tables, store>>
  BY SessionKnown DEF Tailored
<1>2. text # None
  BY KitAssumption
<1>3. ASSUME p.ver # None,
             req' = [req EXCEPT ![r].text = text,
                                ![r].wrote = @ \cup {"text"},
                                ![r].stage = "pdf"]
      PROVE  IndInv'
  <2> DEFINE q == [p EXCEPT !.text = text, !.wrote = @ \cup {"text"}, !.stage = "pdf"]
  <2>1. q \in Request
    BY <1>1 DEF Request, Stages, Writes
  <2>2. /\ q.stage = "pdf" /\ q.wrote = p.wrote \cup {"text"}
        /\ q.kind = p.kind /\ q.ver = p.ver /\ q.text = text /\ q.template = p.template
        /\ q.tone = p.tone /\ q.let = p.let /\ q.force = p.force
    BY <1>1 DEF Request
  <2>3. req' = [req EXCEPT ![r] = q]
    BY <1>1, <1>3
  <2> HIDE DEF q
  <2>4. SessionShape(q)
    BY <1>1, <1>2, <1>3, <2>2 DEF SessionShape, Holding
  <2> QED
    BY <1>1, <2>1, <2>2, <2>3, <2>4, MemoryInductive
<1>4. ASSUME p.ver = None, CanInsert(r),
             req' = [req EXCEPT ![r].ver = CHOOSE v \in Unused : TRUE,
                                ![r].text = text,
                                ![r].template = Classic,
                                ![r].wrote = @ \cup {"insert"},
                                ![r].stage = "pdf"]
      PROVE  IndInv'
  <2>1. PICK n \in Versions : rows[n] = None /\ n = CHOOSE v \in Unused : TRUE
    BY <1>4 DEF CanInsert, Unused
  <2> DEFINE q == [p EXCEPT !.ver = n, !.text = text, !.template = Classic,
                            !.wrote = @ \cup {"insert"}, !.stage = "pdf"]
  <2>2. n # None /\ Classic # None /\ Classic \in Templates
    BY <2>1, KitAssumption
  <2>3. q \in Request
    BY <1>1, <2>1, <2>2 DEF Request, Stages, Writes
  <2>4. /\ q.stage = "pdf" /\ q.wrote = p.wrote \cup {"insert"}
        /\ q.kind = p.kind /\ q.ver = n /\ q.text = text /\ q.template = Classic
        /\ q.tone = p.tone /\ q.let = p.let /\ q.force = p.force
    BY <1>1 DEF Request
  <2>5. req' = [req EXCEPT ![r] = q]
    <3>1. req' = [req EXCEPT ![r].ver = n, ![r].text = text, ![r].template = Classic,
                             ![r].wrote = @ \cup {"insert"}, ![r].stage = "pdf"]
      BY <1>4, <2>1
    <3> QED
      BY <1>1, <3>1
  <2> HIDE DEF q
  <2>6. SessionShape(q)
    BY <1>1, <1>2, <2>2, <2>4 DEF SessionShape, Holding
  <2>7. /\ req' \in [Requests -> Request] /\ req'[r] = q
        /\ \A o \in Requests \ {r} : req'[o] = req[o]
    BY <1>1, <2>3, <2>5
  <2>8. /\ Live' = Live /\ Live = {}
        /\ rows' = rows /\ pdf' = pdf /\ letterPdf' = letterPdf
    BY <1>1, <1>4 DEF tables, store, Live, CanInsert
  <2>9. \A o \in Requests \ {r} : "insert" \notin req[o].wrote
    BY <1>4 DEF CanInsert, InsertHolders, Others
  <2>10. InsertHolders(r)' = {}
    BY <2>7, <2>9 DEF InsertHolders, Others
  <2>11. SessionsCoherent'
    <3>1. \A o \in Requests \ {r} :
            /\ SessionShape(req'[o])
            /\ req'[o].ver # None => (rows'[req'[o].ver] = None <=> "insert" \in req'[o].wrote)
            /\ "insert" \notin req'[o].wrote
            /\ req'[o].stage = "put" /\ req'[o].kind # "docx" => pdf'[req'[o].ver] # None
            /\ req'[o].stage = "letterput" => letterPdf'[req'[o].ver][req'[o].tone] # None
      BY <2>7, <2>8, <2>9 DEF IndInv, SessionsCoherent
    <3>2. /\ SessionShape(req'[r])
          /\ rows'[req'[r].ver] = None /\ "insert" \in req'[r].wrote
          /\ Live' = {} /\ InsertHolders(r)' = {}
          /\ req'[r].stage = "pdf"
      BY <2>1, <2>4, <2>6, <2>7, <2>8, <2>10
    <3> QED
      BY <3>1, <3>2 DEF SessionsCoherent
  <2> QED
    BY <1>1, <2>7, <2>11, TablesKept
<1> QED
  BY <1>3, <1>4 DEF Tailored

(* Steps that only decide, or load a letter, or flush one. *)
LEMMA DecideInductive ==
    ASSUME IndInv, NEW r \in Requests, PdfThere(r) \/ LoadLetter(r) \/ LetterWritten(r)
    PROVE  IndInv'
<1> DEFINE p == req[r]
<1>1. req \in [Requests -> Request] /\ p \in Request /\ SessionShape(p)
      /\ (p.stage \in Holding => p.ver \in Versions /\ p.text \in Texts
                                 /\ p.template \in Templates)
      /\ (p.ver # None => (rows[p.ver] = None <=> "insert" \in p.wrote))
  BY SessionKnown
<1>2. CASE PdfThere(r)
  <2> DEFINE q == [p EXCEPT !.stage = "letter"]
  <2>1. q \in Request
    BY <1>1 DEF Request, Stages
  <2>2. /\ q.stage = "letter" /\ q.wrote = p.wrote
        /\ q.kind = p.kind /\ q.ver = p.ver /\ q.text = p.text /\ q.template = p.template
        /\ q.tone = p.tone /\ q.let = p.let /\ q.force = p.force
    BY <1>1 DEF Request
  <2>3. /\ req' = [req EXCEPT ![r] = q] /\ UNCHANGED <<tables, store>>
        /\ p.stage = "pdf" /\ ~ p.force /\ docs[p.ver] = 1
    BY <1>1, <1>2 DEF Go, PdfThere, Rerenders
  <2>4. "insert" \notin p.wrote
    <3>1. p.ver \in Versions /\ p.ver # None
      BY <1>1, <2>3 DEF Holding, SessionShape
    <3>2. rows[p.ver] # None
      BY <2>3, <3>1 DEF IndInv, OneLiveVersion, Unused
    <3> QED
      BY <1>1, <3>1, <3>2
  <2> HIDE DEF q
  <2>5. SessionShape(q)
    BY <1>1, <2>2, <2>3, <2>4 DEF SessionShape, Holding
  <2> QED
    BY <1>1, <2>1, <2>2, <2>3, <2>5, MemoryInductive
<1>3. CASE LoadLetter(r)
  <2> DEFINE row == letters[p.ver][p.tone]
             next == IF row # None /\ ~ p.force THEN "letterpdf" ELSE "writing"
             q == [p EXCEPT !.let = row, !.stage = next]
  <2>1. p.stage = "letter" /\ p.ver \in Versions /\ p.tone \in Tones
    BY <1>1, <1>3 DEF LoadLetter, Holding, SessionShape, Request
  <2>2. row \in Texts \cup {None} /\ next \in {"letterpdf", "writing"}
        /\ (next = "letterpdf" => row # None)
    BY <2>1 DEF IndInv, TypeOK
  <2>3. req' = [req EXCEPT ![r] = q] /\ UNCHANGED <<tables, store>>
    BY <1>1, <1>3 DEF LoadLetter
  <2> HIDE DEF row, next
  <2>4. q \in Request
    BY <1>1, <2>2 DEF Request, Stages
  <2>5. /\ q.stage = next /\ q.wrote = p.wrote
        /\ q.kind = p.kind /\ q.ver = p.ver /\ q.text = p.text /\ q.template = p.template
        /\ q.tone = p.tone /\ q.let = row /\ q.force = p.force
    BY <1>1 DEF Request
  <2> HIDE DEF q
  <2>6. SessionShape(q)
    BY <1>1, <2>1, <2>2, <2>5 DEF SessionShape, Holding
  <2> QED
    BY <1>1, <2>2, <2>3, <2>4, <2>5, <2>6, MemoryInductive
<1>4. CASE LetterWritten(r)
  <2> DEFINE q == [p EXCEPT !.let = p.text, !.wrote = @ \cup {"letter"}, !.stage = "letterpdf"]
  <2>1. /\ req' = [req EXCEPT ![r] = q] /\ UNCHANGED <<tables, store>>
        /\ p.stage = "writing"
    BY <1>1, <1>4 DEF LetterWritten
  <2>2. p.text \in Texts /\ p.text # None
    BY <1>1, <2>1, KitAssumption DEF Holding
  <2>3. q \in Request
    BY <1>1, <2>2 DEF Request, Stages, Writes
  <2>4. /\ q.stage = "letterpdf" /\ q.wrote = p.wrote \cup {"letter"}
        /\ q.kind = p.kind /\ q.ver = p.ver /\ q.text = p.text /\ q.template = p.template
        /\ q.tone = p.tone /\ q.let = p.text /\ q.force = p.force
    BY <1>1 DEF Request
  <2> HIDE DEF q
  <2>5. SessionShape(q)
    BY <1>1, <2>1, <2>2, <2>4 DEF SessionShape, Holding
  <2> QED
    BY <1>1, <2>1, <2>3, <2>4, <2>5, MemoryInductive
<1> QED
  BY <1>2, <1>3, <1>4

(* Choosing a template changes the session's row and, when it is another   *)
(* template, flushes it.                                                   *)
LEMMA FlushShape ==
    ASSUME IndInv, NEW r \in Requests, NEW stage \in {"put", "letterput"},
           FlushTemplate(r, stage),
           req[r].stage = IF stage = "put" THEN "pdf" ELSE "letterpdf"
    PROVE  /\ Chosen(r) \in Templates
           /\ \E q \in Request :
                /\ req' = [req EXCEPT ![r] = q]
                /\ SessionShape(q)
                /\ q.stage = stage /\ q.kind = req[r].kind
                /\ q.ver = req[r].ver /\ q.tone = req[r].tone /\ q.let = req[r].let
                /\ "insert" \in q.wrote <=> "insert" \in req[r].wrote
<1> USE KitAssumption
<1> DEFINE p == req[r]
           flushed == IF Switches(r) THEN p.wrote \cup {"template"} ELSE p.wrote
           q == [p EXCEPT !.template = Chosen(r), !.wrote = flushed, !.stage = stage]
<1>1. /\ req \in [Requests -> Request] /\ p \in Request /\ SessionShape(p)
      /\ p.stage = IF stage = "put" THEN "pdf" ELSE "letterpdf"
      /\ p.ver \in Versions /\ p.text \in Texts /\ p.template \in Templates
  BY SessionKnown DEF Holding
<1>2. Chosen(r) \in Templates /\ Chosen(r) # None
  <2>1. p.switch \in Templates \cup {None}
    BY <1>1 DEF Request
  <2> QED
    BY <1>1, <2>1 DEF Chosen
<1>3. flushed \in SUBSET Writes /\ (flushed = p.wrote \/ flushed = p.wrote \cup {"template"})
  BY <1>1 DEF Request, Writes
<1>4. req' = [req EXCEPT ![r] = q]
  BY <1>1 DEF FlushTemplate
<1> HIDE DEF flushed
<1>5. q \in Request
  BY <1>1, <1>2, <1>3 DEF Request, Stages
<1>6. /\ q.stage = stage /\ q.wrote = flushed
      /\ q.kind = p.kind /\ q.ver = p.ver /\ q.text = p.text /\ q.template = Chosen(r)
      /\ q.tone = p.tone /\ q.let = p.let /\ q.force = p.force
  BY <1>1 DEF Request
<1> HIDE DEF q
<1>7. SessionShape(q)
  BY <1>1, <1>2, <1>3, <1>6 DEF SessionShape, Holding
<1> QED
  BY <1>2, <1>3, <1>4, <1>5, <1>6, <1>7

(* Uploads: what a request is about to commit a documents row for is there.*)
LEMMA UploadInductive ==
    ASSUME IndInv, NEW r \in Requests, PutPdf(r) \/ PutLetter(r)
    PROVE  IndInv'
<1> DEFINE p == req[r]
<1>1. req \in [Requests -> Request] /\ p \in Request /\ SessionShape(p)
      /\ (p.stage \in Holding => p.ver \in Versions /\ p.text \in Texts
                                 /\ p.template \in Templates)
  BY SessionKnown
<1>2. CASE PutPdf(r)
  <2> DEFINE shown == [text |-> p.text, template |-> Chosen(r)]
  <2>1. /\ p.stage = "pdf" /\ p.ver \in Versions /\ p.text \in Texts
        /\ FlushTemplate(r, "put")
        /\ pdf' = IF p.kind = "docx" THEN pdf ELSE [pdf EXCEPT ![p.ver] = shown]
        /\ UNCHANGED <<tables, letterPdf>>
    BY <1>1, <1>2 DEF PutPdf, Holding
  <2>2. PICK q \in Request :
          /\ Chosen(r) \in Templates
          /\ req' = [req EXCEPT ![r] = q]
          /\ SessionShape(q)
          /\ q.stage = "put" /\ q.kind = p.kind
          /\ q.ver = p.ver /\ q.tone = p.tone /\ q.let = p.let
          /\ "insert" \in q.wrote <=> "insert" \in p.wrote
    BY <2>1, FlushShape
  <2>3. shown \in Shown /\ shown # None
    BY <2>1, <2>2, KitAssumption DEF Shown
  <2> HIDE DEF shown
  <2>4. /\ pdf' \in [Versions -> Shown \cup {None}]
        /\ p.kind # "docx" => pdf'[p.ver] # None
        /\ \A v \in Versions : pdf[v] # None => pdf'[v] # None
    BY <2>1, <2>3 DEF IndInv, TypeOK
  <2>5. UNCHANGED <<extracted, rows, letters, docs, letterDocs, apps, letterPdf>>
    BY <2>1 DEF tables
  <2>6. SessionsCoherent' /\ req' \in [Requests -> Request]
    BY <2>2, <2>4, <2>5, GoesOn
  <2>7. TypeOK'
    BY <2>4, <2>5, <2>6 DEF IndInv, TypeOK
  <2>8. DocsHaveObjects' /\ OneLiveVersion'
    BY <2>4, <2>5 DEF IndInv, DocsHaveObjects, OneLiveVersion, Live, Unused
  <2> QED
    BY <2>6, <2>7, <2>8 DEF IndInv
<1>3. CASE PutLetter(r)
  <2>1. /\ p.stage = "letterpdf" /\ p.ver \in Versions /\ p.tone \in Tones
        /\ p.let \in Texts /\ p.let # None
        /\ letterPdf' = [letterPdf EXCEPT ![p.ver][p.tone] = p.let]
        /\ UNCHANGED <<tables, pdf>>
    BY <1>1, <1>3 DEF PutLetter, Holding, SessionShape, Request
  <2>2. PICK q \in Request :
          /\ req' = [req EXCEPT ![r] = q]
          /\ SessionShape(q)
          /\ q.stage = "letterput"
          /\ q.ver = p.ver /\ q.tone = p.tone
          /\ "insert" \in q.wrote <=> "insert" \in p.wrote
    <3>1. CASE p.kind = "letterrender"
      <4>1. FlushTemplate(r, "letterput")
        BY <1>3, <3>1 DEF PutLetter
      <4> QED
        BY <2>1, <4>1, FlushShape
    <3>2. CASE p.kind # "letterrender"
      <4> DEFINE q == [p EXCEPT !.stage = "letterput"]
      <4>1. req' = [req EXCEPT ![r] = q]
        BY <1>1, <1>3, <3>2 DEF PutLetter, Go
      <4>2. q \in Request
        BY <1>1 DEF Request, Stages
      <4>3. /\ q.stage = "letterput" /\ q.wrote = p.wrote
            /\ q.kind = p.kind /\ q.ver = p.ver /\ q.text = p.text /\ q.template = p.template
            /\ q.tone = p.tone /\ q.let = p.let /\ q.force = p.force
        BY <1>1 DEF Request
      <4> HIDE DEF q
      <4>4. SessionShape(q)
        BY <1>1, <2>1, <4>3 DEF SessionShape, Holding
      <4> QED
        BY <4>1, <4>2, <4>3, <4>4
    <3> QED
      BY <3>1, <3>2
  <2>3. /\ letterPdf' \in [Versions -> [Tones -> Texts \cup {None}]]
        /\ letterPdf'[p.ver][p.tone] # None
        /\ \A v \in Versions, w \in Tones :
             letterPdf[v][w] # None => letterPdf'[v][w] # None
    BY <2>1 DEF IndInv, TypeOK
  <2>4. UNCHANGED <<extracted, rows, letters, docs, letterDocs, apps, pdf>>
    BY <2>1 DEF tables
  <2>5. SessionsCoherent' /\ req' \in [Requests -> Request]
    BY <2>2, <2>3, <2>4, GoesOn
  <2>6. TypeOK'
    BY <2>3, <2>4, <2>5 DEF IndInv, TypeOK
  <2>7. DocsHaveObjects' /\ OneLiveVersion'
    <3>1. \A v \in Versions : \A w \in letterDocs[v] : w \in Tones /\ letterPdf[v][w] # None
      BY DEF IndInv, TypeOK, DocsHaveObjects
    <3> QED
      BY <2>3, <2>4, <3>1 DEF IndInv, DocsHaveObjects, OneLiveVersion, Live, Unused
  <2> QED
    BY <2>5, <2>6, <2>7 DEF IndInv
<1> QED
  BY <1>2, <1>3

(* Refusals and failures drop the session and nothing else. *)
LEMMA DropInductive ==
    ASSUME IndInv, NEW r \in Requests,
           InsertRefused(r) \/ PdfAmbiguous(r) \/ LetterRefused(r) \/ Fails(r)
    PROVE  IndInv'
<1>1. End(r) /\ UNCHANGED <<tables, store>>
  BY DEF InsertRefused, PdfAmbiguous, LetterRefused, Fails
<1>2. UNCHANGED <<rows, pdf, letterPdf>>
  BY <1>1 DEF tables, store
<1> QED
  BY <1>1, <1>2, EndKeepsSessions, TablesKept

(* A letter replaced in the table of letters. *)
LEMMA OneLetter ==
    ASSUME NEW f \in [Versions -> [Tones -> Texts \cup {None}]],
           NEW v \in Versions, NEW w \in Tones, NEW t \in Texts \cup {None}
    PROVE  [f EXCEPT ![v][w] = t] \in [Versions -> [Tones -> Texts \cup {None}]]
<1>1. [f[v] EXCEPT ![w] = t] \in [Tones -> Texts \cup {None}]
  OBVIOUS
<1> QED
  BY <1>1

(* Commits that leave the versions alone. *)
LEMMA CommitInductive ==
    ASSUME IndInv, NEW r \in Requests,
           LetterCommits(r) \/ LetterPdfThere(r) \/ ApplyCommit(r)
    PROVE  IndInv'
<1> DEFINE p == req[r]
<1>1. /\ p \in Request /\ SessionShape(p)
      /\ (p.stage \in Holding => p.ver \in Versions /\ p.text \in Texts
                                 /\ p.template \in Templates)
      /\ (p.ver # None => (rows[p.ver] = None <=> "insert" \in p.wrote))
  BY SessionKnown
<1>2. /\ p.stage \in {"writing", "letterpdf", "applying"}
      /\ End(r) /\ UNCHANGED <<rows, docs, pdf, letterPdf>>
  BY DEF LetterCommits, LetterPdfThere, ApplyCommit, store
<1>3. p.ver \in Versions /\ rows[p.ver] # None
  BY <1>1, <1>2 DEF Holding, SessionShape
<1>4. SessionsCoherent' /\ req' \in [Requests -> Request]
  BY <1>2, EndKeepsSessions
<1>5. extracted' \in BOOLEAN
  <2>1. CASE ApplyCommit(r)
    BY <2>1 DEF ApplyCommit, IndInv, TypeOK
  <2>2. CASE LetterCommits(r) \/ LetterPdfThere(r)
    BY <2>2, Zenon DEF LetterCommits, LetterPdfThere, CommitJob
  <2> QED
    BY <2>1, <2>2
<1>6. letters' \in [Versions -> [Tones -> Texts \cup {None}]]
  <2>1. p.tone \in Tones \cup {None} /\ p.let \in Texts \cup {None}
    BY <1>1 DEF Request
  <2>2. CASE LetterCommits(r)
    <3>1. p.tone \in Tones /\ p.text \in Texts
      BY <1>1, <2>1, <2>2 DEF LetterCommits, SessionShape, Holding
    <3>2. letters' = [letters EXCEPT ![p.ver][p.tone] = p.text]
      BY <2>2 DEF LetterCommits
    <3> HIDE DEF p
    <3>3. letters \in [Versions -> [Tones -> Texts \cup {None}]] /\ p.text \in Texts \cup {None}
      BY <3>1 DEF IndInv, TypeOK
    <3>4. [letters EXCEPT ![p.ver][p.tone] = p.text] \in [Versions -> [Tones -> Texts \cup {None}]]
      BY <1>3, <3>1, <3>3, OneLetter
    <3> QED
      BY <3>2, <3>4
  <2>3. CASE LetterPdfThere(r) \/ ApplyCommit(r)
    BY <2>3 DEF LetterPdfThere, ApplyCommit, IndInv, TypeOK
  <2> QED
    BY <2>2, <2>3
<1>7. /\ apps' \in [Versions -> 0 .. 2]
      /\ \A v \in Unused : apps'[v] = 0
  BY <1>3 DEF LetterCommits, LetterPdfThere, ApplyCommit, IndInv, TypeOK,
     OneLiveVersion, Unused, OneMore
<1>8. letterDocs' = letterDocs
  BY DEF LetterCommits, LetterPdfThere, ApplyCommit
<1>9. TypeOK'
  BY <1>2, <1>4, <1>5, <1>6, <1>7, <1>8 DEF IndInv, TypeOK
<1>10. DocsHaveObjects' /\ OneLiveVersion'
  BY <1>2, <1>7, <1>8 DEF IndInv, DocsHaveObjects, OneLiveVersion, Live, Unused
<1> QED
  BY <1>4, <1>9, <1>10 DEF IndInv

(* A session that ends or goes on with nothing flushed, while versions are *)
(* written: either no row appears and none comes alive, or nobody else has *)
(* an insert pending.                                                      *)
LEMMA RowsMove ==
    ASSUME IndInv, NEW r \in Requests, NEW q \in Request,
           req' = [req EXCEPT ![r] = q], UNCHANGED store,
           SessionShape(q), q.wrote = {}, q.stage \notin {"put", "letterput"},
           q.ver # None => rows'[q.ver] # None,
           \A v \in Versions : rows[v] # None => rows'[v] # None,
           \/ InsertHolders(r) = {}
           \/ /\ \A v \in Versions : rows'[v] # None => rows[v] # None
              /\ Live' \subseteq Live
    PROVE  SessionsCoherent' /\ req' \in [Requests -> Request]
<1> USE KitAssumption DEF IndInv
<1>1. req' \in [Requests -> Request] /\ req'[r] = q
      /\ \A o \in Requests \ {r} : req'[o] = req[o]
  BY DEF TypeOK
<1>2. \A o \in Requests : InsertHolders(o)' \subseteq InsertHolders(o)
  BY <1>1 DEF InsertHolders, Others
<1>3. \A o \in Requests \ {r} : req[o].ver \in Versions \cup {None}
  BY DEF TypeOK, Request
<1>4. ASSUME NEW o \in Requests \ {r}
      PROVE  /\ SessionShape(req'[o])
             /\ req'[o].ver # None => (rows'[req'[o].ver] = None <=> "insert" \in req'[o].wrote)
             /\ "insert" \in req'[o].wrote => Live' = {} /\ InsertHolders(o)' = {}
             /\ req'[o].stage = "put" /\ req'[o].kind # "docx" => pdf'[req'[o].ver] # None
             /\ req'[o].stage = "letterput" => letterPdf'[req'[o].ver][req'[o].tone] # None
  <2>1. "insert" \in req[o].wrote => InsertHolders(r) # {}
    BY DEF InsertHolders, Others
  <2>2. SessionShape(req[o]) /\ req'[o] = req[o]
    BY <1>1 DEF SessionsCoherent
  <2>3. req[o].ver # None => (rows'[req[o].ver] = None <=> "insert" \in req[o].wrote)
    BY <1>3, <2>1 DEF SessionsCoherent
  <2>4. "insert" \in req[o].wrote => Live' = {} /\ InsertHolders(o)' = {}
    BY <1>2, <2>1 DEF SessionsCoherent
  <2>5. /\ req[o].stage = "put" /\ req[o].kind # "docx" => pdf'[req[o].ver] # None
        /\ req[o].stage = "letterput" => letterPdf'[req[o].ver][req[o].tone] # None
    BY DEF SessionsCoherent, store
  <2> QED
    BY <2>2, <2>3, <2>4, <2>5
<1>5. SessionsCoherent'
  BY <1>1, <1>4 DEF SessionsCoherent
<1> QED
  BY <1>1, <1>5

(* Commits that write a version. *)
LEMMA VersionInductive ==
    ASSUME IndInv, NEW r \in Requests,
           \/ \E text \in Texts : TailorCommits(r, text)
           \/ DeleteCommit(r)
    PROVE  IndInv'
<1> USE KitAssumption
<1> DEFINE p == req[r]
<1>1. /\ p \in Request /\ SessionShape(p)
      /\ (p.stage \in Holding => p.ver \in Versions /\ p.text \in Texts
                                 /\ p.template \in Templates)
      /\ (p.ver # None => (rows[p.ver] = None <=> "insert" \in p.wrote))
  BY SessionKnown
<1>2. /\ Idle \in Request /\ SessionShape(Idle) /\ Idle.wrote = {} /\ Idle.ver = None
      /\ Idle.stage \notin {"put", "letterput"}
  BY DEF Idle, Request, Stages, Writes, SessionShape, Holding, AllKinds
<1>3. ASSUME NEW text \in Texts, TailorCommits(r, text) PROVE IndInv'
  <2>1. PICK n \in Unused :
          rows' = [rows EXCEPT ![n] = [text |-> text, template |-> Classic, live |-> TRUE]]
    BY <1>3 DEF TailorCommits, CanInsert
  <2>2. /\ req' = [req EXCEPT ![r] = Idle] /\ UNCHANGED store
        /\ UNCHANGED <<letters, docs, letterDocs, apps, pdf, letterPdf>>
        /\ InsertHolders(r) = {} /\ Live = {} /\ n \in Versions
    BY <1>3 DEF TailorCommits, CanInsert, End, Unused, store
  <2>3. /\ rows' \in [Versions -> Row \cup {None}]
        /\ \A v \in Versions : rows[v] # None => rows'[v] # None
        /\ \A v \in Versions \ {n} : rows'[v] = rows[v]
        /\ rows'[n] # None
    <3> DEFINE new == [text |-> text, template |-> Classic, live |-> TRUE]
    <3>1. new \in Row
      <4>1. TRUE \in BOOLEAN
        OBVIOUS
      <4> QED
        BY <4>1 DEF Row
    <3>1a. new # None
      BY <3>1
    <3> HIDE DEF new
    <3>2. rows' = [rows EXCEPT ![n] = new]
      BY <2>1 DEF new
    <3> QED
      BY <2>2, <3>1, <3>1a, <3>2 DEF IndInv, TypeOK
  <2>4. SessionsCoherent' /\ req' \in [Requests -> Request]
    BY <1>2, <2>2, <2>3, RowsMove
  <2>5. extracted' \in BOOLEAN
    BY <1>3, Zenon DEF TailorCommits, CommitJob
  <2>6. TypeOK'
    BY <2>2, <2>3, <2>4, <2>5 DEF IndInv, TypeOK
  <2>7. Live' \subseteq {n} /\ Unused' \subseteq Unused
    BY <2>2, <2>3 DEF Live, Unused
  <2>8. DocsHaveObjects' /\ OneLiveVersion'
    BY <2>2, <2>7 DEF IndInv, DocsHaveObjects, OneLiveVersion
  <2> QED
    BY <2>4, <2>6, <2>8 DEF IndInv
<1>4. CASE DeleteCommit(r)
  <2>1. p.ver \in Versions /\ rows[p.ver] \in Row
    BY <1>1, <1>4 DEF DeleteCommit, SessionShape, Holding, IndInv, TypeOK
  <2>2. /\ req' = [req EXCEPT ![r] = Idle] /\ UNCHANGED store
        /\ UNCHANGED <<extracted, letters, docs, letterDocs, apps, pdf, letterPdf>>
        /\ rows' = [rows EXCEPT ![p.ver].live = FALSE]
    BY <1>4 DEF DeleteCommit, End, store
  <2> HIDE DEF p
  <2>3. [rows[p.ver] EXCEPT !.live = FALSE] \in Row
        /\ [rows[p.ver] EXCEPT !.live = FALSE].live = FALSE
    BY <2>1 DEF Row
  <2>4. /\ rows' \in [Versions -> Row \cup {None}]
        /\ \A v \in Versions : rows'[v] = None <=> rows[v] = None
        /\ \A v \in Versions \ {p.ver} : rows'[v] = rows[v]
        /\ rows'[p.ver].live = FALSE
    BY <2>1, <2>2, <2>3 DEF IndInv, TypeOK
  <2>5. Live' \subseteq Live /\ Unused' = Unused
    BY <2>4 DEF Live, Unused
  <2>6. SessionsCoherent' /\ req' \in [Requests -> Request]
    BY <1>2, <2>2, <2>4, <2>5, RowsMove
  <2>7. TypeOK'
    BY <2>2, <2>4, <2>6 DEF IndInv, TypeOK
  <2>8. DocsHaveObjects' /\ OneLiveVersion'
    BY <2>2, <2>5 DEF IndInv, DocsHaveObjects, OneLiveVersion
  <2> QED
    BY <2>6, <2>7, <2>8 DEF IndInv
<1> QED
  BY <1>3, <1>4

(* The commit of a document writes the row it was rendered from: for an    *)
(* insert the only live one, else the row that is there, still as live as  *)
(* it was.                                                                 *)
LEMMA CommitRowMoves ==
    ASSUME IndInv, NEW r \in Requests, CommitRow(r), req[r].stage \in {"put", "letterput"}
    PROVE  /\ req[r].ver \in Versions
           /\ rows' \in [Versions -> Row \cup {None}]
           /\ rows'[req[r].ver] # None
           /\ \A v \in Versions \ {req[r].ver} : rows'[v] = rows[v]
           /\ \/ InsertHolders(r) = {} /\ Live' \subseteq {req[r].ver}
              \/ rows[req[r].ver] # None /\ Live' \subseteq Live
<1> USE KitAssumption
<1> DEFINE p == req[r]
           w == WrittenRow(r)
<1>1. /\ p \in Request /\ SessionShape(p)
      /\ p.ver \in Versions /\ p.text \in Texts /\ p.template \in Templates
      /\ (rows[p.ver] = None <=> "insert" \in p.wrote)
  BY SessionKnown DEF Holding
<1>2. "insert" \in p.wrote => Live = {} /\ InsertHolders(r) = {}
  BY <1>1 DEF IndInv, SessionsCoherent
<1>3. rows' = IF p.wrote \cap {"insert", "text", "template"} # {}
              THEN [rows EXCEPT ![p.ver] = w] ELSE rows
  BY DEF CommitRow
<1>4. rows[p.ver] # None => rows[p.ver] \in Row
  BY <1>1 DEF IndInv, TypeOK
<1>5. w \in Row
  <2>1. "insert" \notin p.wrote =>
          rows[p.ver].text \in Texts /\ rows[p.ver].template \in Templates
          /\ rows[p.ver].live \in BOOLEAN
    BY <1>1, <1>4 DEF Row
  <2>2. /\ w.text \in Texts /\ w.template \in Templates
    BY <1>1, <2>1 DEF WrittenRow
  <2>3. (IF "insert" \in p.wrote THEN TRUE ELSE rows[p.ver].live) \in BOOLEAN
    BY <2>1
  <2> QED
    BY <1>1, <2>1, <2>3 DEF WrittenRow, Row
<1>6. "insert" \notin p.wrote => w.live = rows[p.ver].live
  BY DEF WrittenRow
<1>7. w # None
  BY <1>5
<1> HIDE DEF w, p
<1>8. /\ rows' \in [Versions -> Row \cup {None}]
      /\ \A v \in Versions \ {p.ver} : rows'[v] = rows[v]
      /\ rows'[p.ver] # None
      /\ "insert" \notin p.wrote => rows'[p.ver].live = rows[p.ver].live
  BY <1>1, <1>3, <1>4, <1>5, <1>6, <1>7 DEF IndInv, TypeOK
<1>9. CASE "insert" \in p.wrote
  <2>1. Live' \subseteq {p.ver}
    BY <1>2, <1>8, <1>9 DEF Live
  <2> QED
    BY <1>1, <1>2, <1>8, <1>9, <2>1 DEF p
<1>10. CASE "insert" \notin p.wrote
  <2>1. Live' \subseteq Live
    BY <1>1, <1>8, <1>10 DEF Live
  <2> QED
    BY <1>1, <1>2, <1>8, <1>10, <2>1 DEF p
<1> QED
  BY <1>9, <1>10

LEMMA CommitPdfInductive ==
    ASSUME IndInv, NEW r \in Requests, CommitPdf(r)
    PROVE  IndInv'
<1> USE KitAssumption
<1> DEFINE p == req[r]
           q == IF p.kind = "kit" THEN [p EXCEPT !.wrote = {}, !.stage = "letter"] ELSE Idle
<1>1. /\ p \in Request /\ SessionShape(p) /\ p.stage = "put"
      /\ p.text # None /\ p.template # None
  <2>1. p.stage = "put"
    BY DEF CommitPdf
  <2> QED
    BY <2>1, SessionKnown DEF Holding, SessionShape
<1>2. /\ p.ver \in Versions /\ (p.kind # "docx" => pdf[p.ver] # None)
      /\ rows' \in [Versions -> Row \cup {None}]
      /\ rows'[p.ver] # None
      /\ \A v \in Versions \ {p.ver} : rows'[v] = rows[v]
      /\ \/ InsertHolders(r) = {} /\ Live' \subseteq {p.ver}
         \/ rows[p.ver] # None /\ Live' \subseteq Live
  <2>1. CommitRow(r)
    BY DEF CommitPdf
  <2> QED
    BY <1>1, <2>1, CommitRowMoves DEF IndInv, SessionsCoherent
<1>3. /\ req' = [req EXCEPT ![r] = q]
      /\ UNCHANGED store
      /\ UNCHANGED <<letters, letterDocs, apps, pdf, letterPdf>>
      /\ docs' = IF p.kind = "docx" THEN docs ELSE [docs EXCEPT ![p.ver] = OneMore(@)]
  <2>1. req' = [req EXCEPT ![r] = q]
    <3>1. CASE p.kind = "kit"
      <4>1. req' = [req EXCEPT ![r].wrote = {}, ![r].stage = "letter"]
        BY <3>1 DEF CommitPdf
      <4> QED
        BY <3>1, <4>1 DEF IndInv, TypeOK
    <3>2. CASE p.kind # "kit"
      BY <3>2 DEF CommitPdf, End
    <3> QED
      BY <3>1, <3>2
  <2> QED
    BY <2>1 DEF CommitPdf, store
<1>4. q \in Request /\ SessionShape(q) /\ q.wrote = {}
      /\ q.stage \notin {"put", "letterput"} /\ (q.ver # None => q.ver = p.ver)
  <2>1. CASE p.kind = "kit"
    <3> DEFINE k == [p EXCEPT !.wrote = {}, !.stage = "letter"]
    <3>1. k \in Request
      BY <1>1 DEF Request, Stages
    <3>2. /\ k.stage = "letter" /\ k.wrote = {} /\ k.kind = "kit" /\ k.ver = p.ver
          /\ k.text = p.text /\ k.template = p.template /\ k.tone = p.tone
          /\ k.force = p.force
      BY <1>1, <2>1 DEF Request
    <3> HIDE DEF k
    <3>3. SessionShape(k)
      BY <1>1, <2>1, <3>2, <1>2 DEF SessionShape, Holding
    <3> QED
      BY <2>1, <3>1, <3>2, <3>3 DEF k
  <2>2. CASE p.kind # "kit"
    <3>1. /\ Idle \in Request /\ SessionShape(Idle) /\ Idle.wrote = {} /\ Idle.ver = None
          /\ Idle.stage \notin {"put", "letterput"}
      BY DEF Idle, Request, Stages, Writes, SessionShape, Holding, AllKinds
    <3> QED
      BY <2>2, <3>1
  <2> QED
    BY <2>1, <2>2
<1> HIDE DEF q, p
<1>5. SessionsCoherent' /\ req' \in [Requests -> Request]
  <2>1. \A v \in Versions : rows[v] # None => rows'[v] # None
    BY <1>2
  <2>2. rows[p.ver] # None => \A v \in Versions : rows'[v] # None => rows[v] # None
    BY <1>2
  <2> QED
    BY <1>2, <1>3, <1>4, <2>1, <2>2, RowsMove
<1>6. extracted' \in BOOLEAN
  BY Zenon DEF CommitPdf, CommitJob
<1>7. /\ docs' \in [Versions -> 0 .. 2]
      /\ \A v \in Versions \ {p.ver} : docs'[v] = docs[v]
  BY <1>2, <1>3 DEF IndInv, TypeOK, OneMore
<1>8. TypeOK'
  BY <1>2, <1>3, <1>5, <1>6, <1>7 DEF IndInv, TypeOK
<1>9. DocsHaveObjects'
  BY <1>2, <1>3, <1>7 DEF IndInv, DocsHaveObjects
<1>10. OneLiveVersion'
  <2>1. Unused' \subseteq Unused \ {p.ver}
    BY <1>2 DEF Unused
  <2>2. Unused' \subseteq Versions
    BY DEF Unused
  <2> QED
    BY <1>2, <1>3, <1>7, <2>1, <2>2 DEF IndInv, OneLiveVersion
<1> QED
  BY <1>5, <1>8, <1>9, <1>10 DEF IndInv

(* The commit of a letter's PDF writes the letter, and the version's row   *)
(* when its template was switched.                                         *)
LEMMA CommitLetterInductive ==
    ASSUME IndInv, NEW r \in Requests, CommitLetter(r)
    PROVE  IndInv'
<1> USE KitAssumption
<1> DEFINE p == req[r]
<1>1. /\ p \in Request /\ SessionShape(p) /\ p.stage = "letterput"
      /\ p.ver \in Versions /\ p.tone \in Tones /\ p.let \in Texts
      /\ letterPdf[p.ver][p.tone] # None
      /\ rows[p.ver] # None
  <2>1. p.stage = "letterput"
    BY DEF CommitLetter
  <2>2. p \in Request /\ SessionShape(p) /\ p.ver \in Versions /\ letterPdf[p.ver][p.tone] # None
        /\ (rows[p.ver] = None <=> "insert" \in p.wrote)
    BY <2>1, SessionKnown DEF Holding, IndInv, SessionsCoherent
  <2> QED
    BY <2>1, <2>2 DEF SessionShape, Request
<1>2. /\ rows' \in [Versions -> Row \cup {None}]
      /\ rows'[p.ver] # None
      /\ \A v \in Versions \ {p.ver} : rows'[v] = rows[v]
      /\ \/ InsertHolders(r) = {} /\ Live' \subseteq {p.ver}
         \/ rows[p.ver] # None /\ Live' \subseteq Live
  <2>1. CommitRow(r)
    BY DEF CommitLetter
  <2> QED
    BY <1>1, <2>1, CommitRowMoves
<1>3. /\ req' = [req EXCEPT ![r] = Idle]
      /\ UNCHANGED store
      /\ UNCHANGED <<docs, apps, pdf, letterPdf>>
      /\ letterDocs' = [letterDocs EXCEPT ![p.ver] = @ \cup {p.tone}]
  BY DEF CommitLetter, End, store
<1>4. letters' \in [Versions -> [Tones -> Texts \cup {None}]]
  <2>1. letters' = [letters EXCEPT ![p.ver][p.tone] = p.let] \/ letters' = letters
    BY DEF CommitLetter, CommitLetterRow
  <2> HIDE DEF p
  <2>2. letters \in [Versions -> [Tones -> Texts \cup {None}]] /\ p.let \in Texts \cup {None}
    BY <1>1 DEF IndInv, TypeOK
  <2>3. [letters EXCEPT ![p.ver][p.tone] = p.let] \in [Versions -> [Tones -> Texts \cup {None}]]
    BY <1>1, <2>2, OneLetter
  <2> QED
    BY <2>1, <2>2, <2>3
<1>5. /\ Idle \in Request /\ SessionShape(Idle) /\ Idle.wrote = {} /\ Idle.ver = None
      /\ Idle.stage \notin {"put", "letterput"}
  BY DEF Idle, Request, Stages, Writes, SessionShape, Holding, AllKinds
<1>6. extracted' \in BOOLEAN
  BY Zenon DEF CommitLetter, CommitJob
<1> HIDE DEF p
<1>7. SessionsCoherent' /\ req' \in [Requests -> Request]
  <2>1. \A v \in Versions : rows[v] # None <=> rows'[v] # None
    BY <1>1, <1>2
  <2> QED
    BY <1>2, <1>3, <1>5, <2>1, RowsMove
<1>8. /\ letterDocs' \in [Versions -> SUBSET Tones]
      /\ \A v \in Versions \ {p.ver} : letterDocs'[v] = letterDocs[v]
      /\ letterDocs'[p.ver] = letterDocs[p.ver] \cup {p.tone}
  BY <1>1, <1>3 DEF IndInv, TypeOK
<1>9. TypeOK'
  BY <1>2, <1>3, <1>4, <1>6, <1>7, <1>8 DEF IndInv, TypeOK
<1>10. DocsHaveObjects'
  BY <1>1, <1>3, <1>8 DEF IndInv, DocsHaveObjects
<1>11. OneLiveVersion'
  <2>1. Unused' \subseteq Unused \ {p.ver}
    BY <1>2 DEF Unused
  <2>2. Unused' \subseteq Versions
    BY DEF Unused
  <2> QED
    BY <1>2, <1>3, <1>8, <2>1, <2>2 DEF IndInv, OneLiveVersion
<1> QED
  BY <1>7, <1>9, <1>10, <1>11 DEF IndInv

(* Every step of every request keeps the inductive invariant. *)
LEMMA NextInductive == IndInv /\ [Next]_vars => IndInv'
<1> SUFFICES ASSUME IndInv, [Next]_vars PROVE IndInv'
  OBVIOUS
<1>1. CASE UNCHANGED vars
  <2>1. UNCHANGED <<extracted, rows, letters, docs, letterDocs, apps, pdf, letterPdf, req>>
    BY <1>1 DEF vars, tables, store
  <2>2. TypeOK' /\ DocsHaveObjects'
    BY <2>1 DEF IndInv, TypeOK, DocsHaveObjects
  <2>3. OneLiveVersion'
    BY <2>1 DEF IndInv, OneLiveVersion, Live, Unused
  <2>4. SessionsCoherent'
    BY <2>1 DEF IndInv, SessionsCoherent, Live, InsertHolders, Others
  <2> QED
    BY <2>2, <2>3, <2>4 DEF IndInv
<1>2. ASSUME NEW r \in Requests, Begin(r) PROVE IndInv'
  BY <1>2, BeginInductive
<1>3. ASSUME NEW r \in Requests, Fails(r) PROVE IndInv'
  BY <1>3, DropInductive
<1>4. ASSUME NEW r \in Requests, Step(r) PROVE IndInv'
  <2>1. CASE Extract(r) \/ LoadVersion(r)
    BY <2>1, ExtractInductive, LoadVersionInductive
  <2>2. CASE \E text \in Texts : Tailored(r, text)
    BY <2>2, TailoredInductive
  <2>3. CASE (\E text \in Texts : TailorCommits(r, text)) \/ DeleteCommit(r)
    BY <2>3, VersionInductive
  <2>4. CASE InsertRefused(r) \/ PdfAmbiguous(r) \/ LetterRefused(r)
    BY <2>4, DropInductive
  <2>5. CASE PdfThere(r) \/ LoadLetter(r) \/ LetterWritten(r)
    BY <2>5, DecideInductive
  <2>6. CASE PutPdf(r) \/ PutLetter(r)
    BY <2>6, UploadInductive
  <2>7. CASE CommitPdf(r)
    BY <2>7, CommitPdfInductive
  <2>8. CASE LetterCommits(r) \/ LetterPdfThere(r) \/ ApplyCommit(r)
    BY <2>8, CommitInductive
  <2>9. CASE CommitLetter(r)
    BY <2>9, CommitLetterInductive
  <2> QED
    BY <1>4, <2>1, <2>2, <2>3, <2>4, <2>5, <2>6, <2>7, <2>8, <2>9 DEF Step
<1> QED
  BY <1>1, <1>2, <1>3, <1>4 DEF Next

(* The inductive invariant holds of every reachable state. *)
LEMMA Inductive == Spec => []IndInv
<1> QED
  BY InitInductive, NextInductive, PTL DEF Spec

(* The tables, the object store and the sessions keep their types, however *)
(* requests interleave and fail.                                           *)
THEOREM TypeCorrect == Spec => []TypeOK
<1>1. IndInv => TypeOK
  BY DEF IndInv
<1> QED
  BY <1>1, Inductive, PTL

(* No download link is dead, wherever a request died between the upload of *)
(* a PDF and the commit of its documents row.                              *)
THEOREM DownloadsExist == Spec => []DocsHaveObjects
<1>1. IndInv => DocsHaveObjects
  BY DEF IndInv
<1> QED
  BY <1>1, Inductive, PTL

(* A job target never has two live tailored versions, and documents and    *)
(* applications only belong to versions that were committed.               *)
THEOREM OneVersionIsLive == Spec => []OneLiveVersion
<1>1. IndInv => OneLiveVersion
  BY DEF IndInv
<1> QED
  BY <1>1, Inductive, PTL

(* The sessions agree with the tables they were read from. *)
THEOREM SessionsStayCoherent == Spec => []IndInv
<1> QED
  BY Inductive

(* One step rewrites a version's text only as it commits the regeneration. *)
Regenerated(v) ==
    /\ docs'[v] = OneMore(docs[v]) /\ pdf[v] # None
    /\ \E r \in Requests :
         /\ req[r].kind = "kit" /\ req[r].force /\ req[r].stage = "put"
         /\ req[r].ver = v /\ req[r].text = rows'[v].text

LEMMA StepRewritesWithDocument ==
    ASSUME IndInv, [Next]_vars, NEW v \in Versions, rows[v] # None,
           rows'[v].text # rows[v].text
    PROVE  Regenerated(v)
<1>1. CASE UNCHANGED rows
  BY <1>1
<1>2. ASSUME NEW r \in Requests, CommitPdf(r) \/ CommitLetter(r)
      PROVE  Regenerated(v)
  <2>1. req[r].stage \in {"put", "letterput"} /\ CommitRow(r)
        /\ (req[r].stage = "put" => CommitPdf(r))
    BY <1>2 DEF CommitPdf, CommitLetter
  <2>2. v = req[r].ver
    BY <2>1, CommitRowMoves
  <2>3. rows' = [rows EXCEPT ![v] = WrittenRow(r)]
    BY <2>1, <2>2 DEF CommitRow
  <2>4. rows'[v] = WrittenRow(r)
    BY <2>3 DEF IndInv, TypeOK
  <2>5. req[r].wrote \cap {"insert", "text"} # {}
    BY <2>2, <2>4 DEF WrittenRow
  <2>6. req[r].kind = "kit" /\ req[r].stage = "put"
    BY <2>1, <2>5 DEF IndInv, SessionsCoherent, SessionShape
  <2>7. "insert" \notin req[r].wrote /\ req[r].force
    BY <2>2, <2>5, KitAssumption DEF IndInv, SessionsCoherent, SessionShape
  <2>8. rows'[v].text = req[r].text /\ pdf[v] # None
    BY <2>2, <2>4, <2>5, <2>6 DEF WrittenRow, IndInv, SessionsCoherent
  <2> QED
    BY <2>1, <2>2, <2>6, <2>7, <2>8 DEF CommitPdf, IndInv, TypeOK, Regenerated
<1>3. ASSUME NEW r \in Requests, NEW text \in Texts, TailorCommits(r, text)
      PROVE  FALSE
  <2>1. PICK n \in Unused :
          rows' = [rows EXCEPT ![n] = [text |-> text, template |-> Classic, live |-> TRUE]]
    BY <1>3 DEF TailorCommits, CanInsert
  <2>2. n # v
    BY <2>1 DEF Unused
  <2> QED
    BY <2>1, <2>2 DEF IndInv, TypeOK
<1>4. ASSUME NEW r \in Requests, DeleteCommit(r)
      PROVE  FALSE
  <2>1. rows[v] \in Row
    BY DEF IndInv, TypeOK
  <2>2. rows' = [rows EXCEPT ![req[r].ver].live = FALSE]
    BY <1>4 DEF DeleteCommit
  <2>3. rows'[v] = rows[v] \/ rows'[v] = [rows[v] EXCEPT !.live = FALSE]
    BY <2>2 DEF IndInv, TypeOK
  <2> QED
    BY <2>1, <2>3 DEF Row
<1>5. ASSUME NEW r \in Requests, Begin(r) PROVE UNCHANGED rows
  BY <1>5 DEF Begin, KitBegin, TailorBegin, RenderBegin, LetterBegin, LetterRenderBegin,
     DeleteBegin, TrackBegin, CreateBegin, Arrive, tables
<1>6. ASSUME NEW r \in Requests, Fails(r) PROVE UNCHANGED rows
  BY <1>6 DEF Fails, tables
<1>7. ASSUME NEW r \in Requests, Step(r), ~ CommitPdf(r), ~ CommitLetter(r), ~ DeleteCommit(r),
             \A text \in Texts : ~ TailorCommits(r, text)
      PROVE  UNCHANGED rows
  BY <1>7 DEF Step, Extract, LoadVersion, Tailored, InsertRefused, PdfThere, PdfAmbiguous,
     PutPdf, LoadLetter, LetterWritten, LetterCommits, LetterRefused, LetterPdfThere,
     PutLetter, ApplyCommit, tables
<1>8. CASE UNCHANGED vars
  BY <1>1, <1>8 DEF vars, tables
<1> QED
  BY <1>1, <1>2, <1>3, <1>4, <1>5, <1>6, <1>7, <1>8 DEF Next

(* A version's text is replaced only by the commit of a regeneration that  *)
(* uploaded its PDF, and together with one more documents row.             *)
THEOREM RewritesAreDocumented == Spec => RewritesComeWithDocuments
<1>1. IndInv /\ [Next]_vars =>
        [\A v \in Versions :
           rows[v] # None /\ rows'[v].text # rows[v].text => Regenerated(v)]_rows
  BY StepRewritesWithDocument
<1>2. RewritesComeWithDocuments <=>
        [][\A v \in Versions :
             rows[v] # None /\ rows'[v].text # rows[v].text => Regenerated(v)]_rows
  BY DEF RewritesComeWithDocuments, Regenerated
<1> QED
  BY <1>1, <1>2, Inductive, PTL DEF Spec

(* How far a session is on the way to a whole kit: the requirements are    *)
(* stored or on the way, the resume PDF has a documents row, the letter is *)
(* in its table or flushed.                                                *)
Progress(q) ==
    /\ q.kind = "kit" /\ q.stage # "extracting" => extracted \/ "job" \in q.wrote
    /\ q.kind = "kit" /\ q.stage \in {"letter", "writing", "letterpdf", "letterput"} =>
         docs[q.ver] # 0
    /\ q.stage \in {"letterpdf", "letterput"} =>
         letters[q.ver][q.tone] # None \/ "letter" \in q.wrote

PdfsAreOfLetters == \A v \in Versions : \A w \in letterDocs[v] : letters[v][w] # None

KitInv == IndInv /\ PdfsAreOfLetters /\ \A r \in Requests : Progress(req[r])

Takes(r) == Begin(r) \/ Step(r) \/ Fails(r)

(* The steps that store nothing. *)
Quiet(r) ==
    \/ Begin(r) \/ Fails(r)
    \/ Extract(r) \/ LoadVersion(r) \/ InsertRefused(r)
    \/ \E text \in Texts : Tailored(r, text)
    \/ PdfThere(r) \/ PdfAmbiguous(r) \/ PutPdf(r)
    \/ LoadLetter(r) \/ LetterWritten(r) \/ LetterRefused(r) \/ PutLetter(r)

LEMMA QuietStoresNothing ==
    ASSUME NEW r \in Requests, Quiet(r)
    PROVE  UNCHANGED <<extracted, letters, docs, letterDocs>>
<1>1. CASE Begin(r)
  BY <1>1 DEF Begin, KitBegin, TailorBegin, RenderBegin, LetterBegin, LetterRenderBegin,
     DeleteBegin, TrackBegin, CreateBegin, Arrive, tables
<1>2. CASE ~ Begin(r)
  BY <1>2 DEF Quiet, Fails, Extract, LoadVersion, InsertRefused, Tailored, PdfThere,
     PdfAmbiguous, PutPdf, LoadLetter, LetterWritten, LetterRefused, PutLetter, tables
<1> QED
  BY <1>1, <1>2

(* Every other step commits. *)
LEMMA QuietOrCommits ==
    ASSUME NEW r \in Requests, Takes(r)
    PROVE  \/ Quiet(r)
           \/ CommitPdf(r) \/ CommitLetter(r) \/ LetterPdfThere(r)
           \/ LetterCommits(r) \/ ApplyCommit(r) \/ DeleteCommit(r)
           \/ \E text \in Texts : TailorCommits(r, text)
BY DEF Takes, Step, Quiet

(* What a request that commits its letter has in hand. *)
LEMMA LetterInHand ==
    ASSUME IndInv, NEW r \in Requests,
           CommitLetter(r) \/ LetterPdfThere(r) \/ LetterCommits(r)
    PROVE  /\ req[r].ver \in Versions /\ req[r].tone \in Tones
           /\ req[r].text # None
           /\ CommitLetter(r) => req[r].let \in Texts
<1>1. req[r].stage \in {"letterput", "letterpdf", "writing"}
      /\ (CommitLetter(r) => req[r].stage = "letterput")
  BY DEF CommitLetter, LetterPdfThere, LetterCommits
<1>2. req[r] \in Request /\ SessionShape(req[r]) /\ req[r].ver \in Versions
      /\ req[r].text \in Texts
  BY <1>1, SessionKnown DEF Holding
<1> QED
  BY <1>1, <1>2, KitAssumption DEF SessionShape, Request

(* What is stored stays stored, and a PDF's letter is stored before it.    *)
LEMMA TablesGrow ==
    ASSUME KitInv, NEW r \in Requests, Takes(r)
    PROVE  /\ extracted => extracted'
           /\ \A v \in Versions : docs[v] # 0 => docs'[v] # 0
           /\ \A v \in Versions, w \in Tones : letters[v][w] # None => letters'[v][w] # None
           /\ PdfsAreOfLetters'
<1> USE KitAssumption DEF KitInv
<1>1. /\ docs \in [Versions -> 0 .. 2] /\ letterDocs \in [Versions -> SUBSET Tones]
      /\ letters \in [Versions -> [Tones -> Texts \cup {None}]]
  BY DEF IndInv, TypeOK
<1>2. CASE Quiet(r)
  BY <1>2, QuietStoresNothing DEF PdfsAreOfLetters
<1>3. CASE \/ ApplyCommit(r) \/ DeleteCommit(r) \/ LetterPdfThere(r)
           \/ \E text \in Texts : TailorCommits(r, text)
  <2>1. UNCHANGED <<letters, docs, letterDocs>>
    BY <1>3 DEF ApplyCommit, DeleteCommit, LetterPdfThere, TailorCommits
  <2>2. extracted => extracted'
    BY <1>3, Zenon DEF ApplyCommit, DeleteCommit, LetterPdfThere, TailorCommits, CommitJob
  <2> QED
    BY <2>1, <2>2 DEF PdfsAreOfLetters
<1>4. CASE CommitPdf(r)
  <2>1. \A v \in Versions : docs[v] # 0 => docs'[v] # 0
    BY <1>1, <1>4 DEF CommitPdf, OneMore
  <2> QED
    BY <1>4, <2>1 DEF CommitPdf, CommitJob, PdfsAreOfLetters
<1>5. CASE LetterCommits(r)
  <2>1. /\ letters' = [letters EXCEPT ![req[r].ver][req[r].tone] = req[r].text]
        /\ CommitJob(r) /\ UNCHANGED <<docs, letterDocs>>
    BY <1>5 DEF LetterCommits
  <2>2. \A v \in Versions, w \in Tones : letters[v][w] # None => letters'[v][w] # None
    BY <1>1, <1>5, <2>1, LetterInHand
  <2> QED
    BY <1>1, <2>1, <2>2 DEF CommitJob, PdfsAreOfLetters
<1>6. CASE CommitLetter(r)
  <2> DEFINE v == req[r].ver
             w == req[r].tone
  <2>1. /\ v \in Versions /\ w \in Tones
        /\ req[r].let # None /\ req[r].stage = "letterput"
        /\ CommitJob(r) /\ CommitLetterRow(r) /\ UNCHANGED docs
        /\ letterDocs' = [letterDocs EXCEPT ![v] = @ \cup {w}]
    BY <1>6, LetterInHand DEF CommitLetter
  <2>2. letters'[v][w] # None
    BY <1>1, <2>1 DEF CommitLetterRow, Progress
  <2>3. \A u \in Versions, x \in Tones : letters[u][x] # None => letters'[u][x] # None
    BY <1>1, <2>1 DEF CommitLetterRow
  <2>4. PdfsAreOfLetters'
    BY <1>1, <2>1, <2>2, <2>3 DEF PdfsAreOfLetters
  <2> QED
    BY <2>1, <2>3, <2>4 DEF CommitJob
<1> QED
  BY <1>2, <1>3, <1>4, <1>5, <1>6, QuietOrCommits

(* A step changes no other session. *)
LEMMA OneSession ==
    ASSUME IndInv, NEW r \in Requests, Takes(r), NEW o \in Requests \ {r}
    PROVE  req'[o] = req[o]
<1> USE DEF IndInv, TypeOK
<1>1. CASE Begin(r)
  BY <1>1 DEF Begin, KitBegin, TailorBegin, RenderBegin, LetterBegin, LetterRenderBegin,
     DeleteBegin, TrackBegin, CreateBegin, Arrive
<1>2. CASE Extract(r) \/ LoadVersion(r) \/ \E text \in Texts : Tailored(r, text)
  BY <1>2 DEF Extract, LoadVersion, Tailored, Go
<1>3. CASE PdfThere(r) \/ PutPdf(r) \/ LoadLetter(r) \/ LetterWritten(r) \/ PutLetter(r)
  BY <1>3 DEF PdfThere, PutPdf, LoadLetter, LetterWritten, PutLetter, Go, FlushTemplate
<1>4. CASE InsertRefused(r) \/ PdfAmbiguous(r) \/ LetterRefused(r) \/ Fails(r)
  BY <1>4 DEF InsertRefused, PdfAmbiguous, LetterRefused, Fails, End
<1>5. CASE \/ CommitPdf(r) \/ CommitLetter(r) \/ LetterPdfThere(r)
           \/ LetterCommits(r) \/ ApplyCommit(r) \/ DeleteCommit(r)
           \/ \E text \in Texts : TailorCommits(r, text)
  BY <1>5 DEF CommitPdf, CommitLetter, LetterPdfThere, LetterCommits, ApplyCommit,
     DeleteCommit, TailorCommits, End
<1> QED
  BY <1>1, <1>2, <1>3, <1>4, <1>5, QuietOrCommits DEF Quiet

(* A session that has ended, and one that begins, owes nothing. *)
LEMMA StartsClean ==
    ASSUME IndInv, NEW r \in Requests, Begin(r)
    PROVE  Progress(req[r])'
<1> USE KitAssumption DEF IndInv, TypeOK
<1>1. ASSUME NEW force \in BOOLEAN, NEW tone \in Tones, NEW switch \in Templates \cup {None},
             KitBegin(r, force, tone, switch)
      PROVE  Progress(req[r])'
  <2>1. /\ req'[r].stage = AfterExtraction("kit") /\ req'[r].kind = "kit"
        /\ UNCHANGED extracted
    BY <1>1 DEF KitBegin, Arrive, Idle, tables
  <2> QED
    BY <2>1 DEF Progress, AfterExtraction, Onward
<1>2. ASSUME TailorBegin(r) PROVE Progress(req[r])'
  BY <1>2 DEF TailorBegin, Arrive, Idle, Progress, AfterExtraction, Onward
<1>3. ASSUME NEW v \in Versions, NEW kind \in {"render", "docx"},
             NEW switch \in Templates \cup {None}, RenderBegin(r, v, kind, switch)
      PROVE  Progress(req[r])'
  BY <1>3 DEF RenderBegin, Arrive, Loaded, Idle, Progress
<1>4. ASSUME NEW v \in Versions, NEW tone \in Tones, LetterBegin(r, v, tone)
      PROVE  Progress(req[r])'
  BY <1>4 DEF LetterBegin, Arrive, Loaded, Idle, Progress, AfterExtraction, Onward
<1>5. ASSUME NEW v \in Versions, NEW tone \in Tones, NEW switch \in Templates \cup {None},
             LetterRenderBegin(r, v, tone, switch)
      PROVE  Progress(req[r])'
  <2>1. /\ req'[r].kind = "letterrender" /\ req'[r].ver = v /\ req'[r].tone = tone
        /\ letters'[v][tone] # None
    BY <1>5 DEF LetterRenderBegin, Arrive, Loaded, Idle, tables
  <2> QED
    BY <2>1 DEF Progress
<1>6. ASSUME NEW v \in Versions, DeleteBegin(r, v) \/ TrackBegin(r, v) \/ CreateBegin(r, v)
      PROVE  Progress(req[r])'
  <2>1. PICK stage \in {"deleting", "applying"}, kind \in {"delete", "track", "create"} :
          Arrive(r, [Loaded(v) EXCEPT !.stage = stage, !.kind = kind])
    BY <1>6 DEF DeleteBegin, TrackBegin, CreateBegin
  <2>2. req'[r].stage = stage /\ req'[r].kind = kind
    BY <2>1 DEF Arrive, Loaded, Idle
  <2> QED
    BY <2>2 DEF Progress
<1> QED
  BY <1>1, <1>2, <1>3, <1>4, <1>5, <1>6 DEF Begin

LEMMA EndsClean ==
    ASSUME IndInv, NEW r \in Requests, End(r)
    PROVE  Progress(req[r])'
<1>1. req'[r] = Idle
  BY DEF End, IndInv, TypeOK
<1> QED
  BY <1>1, KitAssumption DEF Progress, Idle, AllKinds

(* A step takes its own session on as Progress says. *)
LEMMA GoesFurther ==
    ASSUME KitInv, NEW r \in Requests, Takes(r)
    PROVE  Progress(req[r])'
<1> USE KitAssumption DEF KitInv
<1> DEFINE p == req[r]
<1>1. /\ req \in [Requests -> Request] /\ p \in Request /\ SessionShape(p) /\ Progress(p)
      /\ p.stage \in Holding => p.ver \in Versions
  BY SessionKnown
<1>2. CASE Begin(r)
  BY <1>2, StartsClean
<1>3. CASE \/ InsertRefused(r) \/ PdfAmbiguous(r) \/ LetterRefused(r) \/ Fails(r)
           \/ CommitLetter(r) \/ LetterPdfThere(r) \/ LetterCommits(r)
           \/ ApplyCommit(r) \/ DeleteCommit(r) \/ \E text \in Texts : TailorCommits(r, text)
  <2>1. End(r)
    BY <1>3 DEF InsertRefused, PdfAmbiguous, LetterRefused, Fails, CommitLetter, LetterPdfThere,
       LetterCommits, ApplyCommit, DeleteCommit, TailorCommits
  <2> QED
    BY <2>1, EndsClean
<1>4. CASE Extract(r)
  <2>1. /\ req'[r].kind = p.kind /\ req'[r].wrote = p.wrote \cup {"job"}
        /\ req'[r].stage \in {"loading", "tailoring", "writing"}
        /\ p.kind = "kit" => req'[r].stage = "loading"
    BY <1>1, <1>4 DEF Extract, Onward, SessionShape
  <2> QED
    BY <2>1 DEF Progress
<1>5. CASE LoadVersion(r) \/ \E text \in Texts : Tailored(r, text)
  <2>1. CASE LoadVersion(r)
    <3>1. CASE Go(r, "tailoring")
      <4>1. req'[r] = [p EXCEPT !.stage = "tailoring"]
        BY <1>1, <3>1 DEF Go
      <4> QED
        BY <1>1, <2>1, <4>1 DEF LoadVersion, tables, Progress, Request
    <3>2. ASSUME NEW v \in Live, NEW stage \in {"tailoring", "pdf"},
                 req'[r] = [p EXCEPT !.ver = v, !.text = rows[v].text,
                                     !.template = rows[v].template, !.stage = stage]
          PROVE  Progress(req[r])'
      BY <1>1, <2>1, <3>2 DEF LoadVersion, tables, Progress, Request
    <3> QED
      BY <1>1, <2>1, <3>1, <3>2 DEF LoadVersion
  <2>2. ASSUME NEW text \in Texts, Tailored(r, text) PROVE Progress(req[r])'
    <3>1. UNCHANGED extracted /\ p.stage = "tailoring"
      BY <2>2 DEF Tailored, tables
    <3>2. \/ req'[r] = [p EXCEPT !.text = text, !.wrote = @ \cup {"text"}, !.stage = "pdf"]
          \/ req'[r] = [p EXCEPT !.ver = CHOOSE v \in Unused : TRUE, !.text = text,
                                 !.template = Classic, !.wrote = @ \cup {"insert"},
                                 !.stage = "pdf"]
      BY <1>1, <2>2 DEF Tailored
    <3>3. /\ req'[r].kind = p.kind /\ p.wrote \subseteq req'[r].wrote
          /\ req'[r].stage = "pdf"
      <4>1. CASE req'[r] = [p EXCEPT !.text = text, !.wrote = @ \cup {"text"}, !.stage = "pdf"]
        BY <1>1, <4>1 DEF Request
      <4>2. ASSUME NEW n,
                   req'[r] = [p EXCEPT !.ver = n, !.text = text, !.template = Classic,
                                       !.wrote = @ \cup {"insert"}, !.stage = "pdf"]
            PROVE  /\ req'[r].kind = p.kind /\ p.wrote \subseteq req'[r].wrote
                   /\ req'[r].stage = "pdf"
        BY <1>1, <4>2 DEF Request
      <4> QED
        BY <3>2, <4>1, <4>2
    <3> QED
      BY <1>1, <3>1, <3>3 DEF Progress
  <2> QED
    BY <1>5, <2>1, <2>2
<1>6. CASE PdfThere(r) \/ LoadLetter(r) \/ LetterWritten(r)
  <2>1. UNCHANGED <<extracted, docs, letters>>
    BY <1>6 DEF PdfThere, LoadLetter, LetterWritten, tables
  <2>2. CASE PdfThere(r)
    <3>1. req'[r] = [p EXCEPT !.stage = "letter"] /\ p.stage = "pdf" /\ docs[p.ver] # 0
      BY <1>1, <2>2 DEF PdfThere, Go
    <3> QED
      BY <1>1, <2>1, <3>1 DEF Progress, Request
  <2>3. CASE LoadLetter(r)
    <3> DEFINE row == letters[p.ver][p.tone]
               next == IF row # None /\ ~ p.force THEN "letterpdf" ELSE "writing"
    <3>1. req'[r] = [p EXCEPT !.let = row, !.stage = next] /\ p.stage = "letter"
      BY <1>1, <2>3 DEF LoadLetter
    <3>2. next \in {"letterpdf", "writing"} /\ (next = "letterpdf" => row # None)
      OBVIOUS
    <3> HIDE DEF next
    <3>3. /\ req'[r].kind = p.kind /\ req'[r].ver = p.ver /\ req'[r].tone = p.tone
          /\ req'[r].wrote = p.wrote /\ req'[r].stage = next
      BY <1>1, <3>1 DEF Request
    <3> QED
      BY <1>1, <2>1, <3>1, <3>2, <3>3 DEF Progress
  <2>4. CASE LetterWritten(r)
    <3>1. /\ req'[r] = [p EXCEPT !.let = p.text, !.wrote = @ \cup {"letter"},
                                 !.stage = "letterpdf"]
          /\ p.stage = "writing"
      BY <1>1, <2>4 DEF LetterWritten
    <3>2. /\ req'[r].kind = p.kind /\ req'[r].ver = p.ver /\ req'[r].tone = p.tone
          /\ req'[r].wrote = p.wrote \cup {"letter"} /\ req'[r].stage = "letterpdf"
      BY <1>1, <3>1 DEF Request
    <3> QED
      BY <1>1, <2>1, <3>1, <3>2 DEF Progress
  <2> QED
    BY <1>6, <2>2, <2>3, <2>4
<1>7. CASE PutPdf(r)
  <2>1. /\ req'[r].kind = p.kind /\ p.wrote \subseteq req'[r].wrote
        /\ p.stage = "pdf" /\ req'[r].stage = "put"
        /\ UNCHANGED extracted
    BY <1>1, <1>7 DEF PutPdf, FlushTemplate, tables
  <2> QED
    BY <1>1, <2>1 DEF Progress
<1>8. CASE PutLetter(r)
  <2>1. p.stage = "letterpdf" /\ UNCHANGED <<extracted, docs, letters>>
    BY <1>8 DEF PutLetter, tables
  <2>3. /\ req'[r].kind = p.kind /\ req'[r].ver = p.ver /\ req'[r].tone = p.tone
        /\ p.wrote \subseteq req'[r].wrote
        /\ req'[r].stage = "letterput"
    <3>1. CASE Go(r, "letterput")
      <4>1. req'[r] = [p EXCEPT !.stage = "letterput"]
        BY <1>1, <3>1 DEF Go
      <4> QED
        BY <1>1, <4>1 DEF Request
    <3>2. CASE FlushTemplate(r, "letterput")
      <4> DEFINE flushed == IF Switches(r) THEN p.wrote \cup {"template"} ELSE p.wrote
      <4>1. req'[r] = [p EXCEPT !.template = Chosen(r), !.wrote = flushed,
                                !.stage = "letterput"]
        BY <1>1, <3>2 DEF FlushTemplate
      <4>2. p.wrote \subseteq flushed
        OBVIOUS
      <4> HIDE DEF flushed
      <4> QED
        BY <1>1, <4>1, <4>2 DEF Request
    <3> QED
      BY <1>8, <3>1, <3>2 DEF PutLetter
  <2> QED
    BY <1>1, <2>1, <2>3 DEF Progress
<1>9. CASE CommitPdf(r)
  <2>1. CASE p.kind = "kit"
    <3>0. req'[r] = [p EXCEPT !.wrote = {}, !.stage = "letter"]
      BY <1>1, <1>9, <2>1 DEF CommitPdf
    <3>1. /\ req'[r].kind = "kit" /\ req'[r].ver = p.ver
          /\ req'[r].stage = "letter" /\ p.stage = "put"
          /\ docs' = [docs EXCEPT ![p.ver] = OneMore(@)]
      BY <1>1, <1>9, <2>1, <3>0 DEF CommitPdf, Request
    <3>2. docs'[p.ver] # 0
      BY <1>1, <3>1 DEF IndInv, TypeOK, OneMore, Holding
    <3>3. extracted'
      <4>1. extracted \/ "job" \in req[r].wrote
        BY <1>1, <2>1, <3>1 DEF Progress
      <4> QED
        BY <1>9, <4>1, Zenon DEF CommitPdf, CommitJob
    <3> QED
      BY <3>1, <3>2, <3>3 DEF Progress
  <2>2. CASE p.kind # "kit"
    BY <1>9, <2>2, EndsClean DEF CommitPdf
  <2> QED
    BY <2>1, <2>2
<1> QED
  BY <1>2, <1>3, <1>4, <1>5, <1>6, <1>7, <1>8, <1>9, QuietOrCommits DEF Quiet

LEMMA KitInvInductive == KitInv /\ [Next]_vars => KitInv'
<1> SUFFICES ASSUME KitInv, [Next]_vars PROVE KitInv'
  OBVIOUS
<1>1. IndInv'
  BY NextInductive DEF KitInv
<1>2. CASE UNCHANGED vars
  <2>1. UNCHANGED <<extracted, letters, docs, letterDocs, req>>
    BY <1>2 DEF vars, tables
  <2> QED
    BY <1>1, <2>1 DEF KitInv, PdfsAreOfLetters, Progress
<1>3. CASE Next
  <2>1. PICK r \in Requests : Takes(r)
    BY <1>3 DEF Next, Takes
  <2>2. PdfsAreOfLetters' /\ Progress(req[r])'
    BY <2>1, TablesGrow, GoesFurther
  <2>3. ASSUME NEW o \in Requests \ {r} PROVE Progress(req[o])'
    <3>1. req'[o] = req[o]
      BY <2>1, OneSession DEF KitInv
    <3>2. /\ req[o] \in Request /\ SessionShape(req[o]) /\ Progress(req[o])
          /\ req[o].stage \in Holding => req[o].ver \in Versions
      BY SessionKnown DEF KitInv
    <3>3. req[o].stage \in {"letterpdf", "letterput"} =>
            req[o].ver \in Versions /\ req[o].tone \in Tones
      BY <3>2 DEF SessionShape, Request, Holding
    <3> QED
      BY <2>1, <3>1, <3>2, <3>3, TablesGrow DEF Progress, Holding
  <2> QED
    BY <1>1, <2>2, <2>3 DEF KitInv
<1> QED
  BY <1>2, <1>3

(* Where POST kit answers, the kit is whole. *)
LEMMA StepDelivers ==
    ASSUME KitInv, NEW r \in Requests, NEW v \in Live,
           req[r].kind = "kit", req[r].tone = Standard, req[r].ver = v,
           CommitLetter(r) \/ LetterPdfThere(r)
    PROVE  MissingPieces(v)' = {}
<1> USE KitAssumption
<1>1. Takes(r) /\ v \in Versions
  BY DEF Takes, Step, Live
<1>2. req[r].stage \in {"letterput", "letterpdf"} /\ Progress(req[r]) /\ CommitJob(r)
  BY DEF CommitLetter, LetterPdfThere, KitInv
<1>3. extracted'
  BY <1>2 DEF Progress, CommitJob
<1>4. docs'[v] # 0
  BY <1>1, <1>2, TablesGrow DEF Progress
<1>5. Standard \in letterDocs'[v]
  <2>1. letterDocs \in [Versions -> SUBSET Tones]
    BY DEF KitInv, IndInv, TypeOK
  <2> QED
    BY <1>1, <2>1 DEF CommitLetter, LetterPdfThere, LetterHasPdf
<1>6. letters'[v][Standard] # None
  BY <1>1, <1>5, TablesGrow DEF PdfsAreOfLetters
<1> DEFINE there == [requirements     |-> extracted',
                     resume_pdf       |-> docs'[v] # 0,
                     cover_letter     |-> letters'[v][Standard] # None,
                     cover_letter_pdf |-> \/ letters'[v][Standard] = None
                                          \/ Standard \in letterDocs'[v]]
<1>7. MissingPieces(v)' = {piece \in DOMAIN there : ~ there[piece]}
  BY DEF MissingPieces, LetterHasPdf
<1>8. DOMAIN there = {"requirements", "resume_pdf", "cover_letter", "cover_letter_pdf"}
  OBVIOUS
<1>9. /\ there["requirements"] /\ there["resume_pdf"]
      /\ there["cover_letter"] /\ there["cover_letter_pdf"]
  BY <1>3, <1>4, <1>5, <1>6
<1> HIDE DEF there
<1> QED
  BY <1>7, <1>8, <1>9

(* Whoever wrote the pieces and in whatever order the commits came: when   *)
(* POST kit answers, nothing of the kit is missing.                        *)
THEOREM KitsAreDelivered == Spec => KitIsDelivered
<1>1. Init => KitInv
  <2>1. Init => \A r \in Requests : Progress(req[r])
    BY KitAssumption DEF Init, Progress, Idle, AllKinds
  <2> QED
    BY <2>1, InitInductive DEF KitInv, PdfsAreOfLetters, Init
<1>2. KitInv /\ [Next]_vars =>
        [\A r \in Requests, v \in Live :
           /\ req[r].kind = "kit" /\ req[r].tone = Standard /\ req[r].ver = v
           /\ CommitLetter(r) \/ LetterPdfThere(r)
           => MissingPieces(v)' = {}]_vars
  BY StepDelivers
<1> QED
  BY <1>1, <1>2, KitInvInductive, PTL DEF Spec, KitIsDelivered
-----------------------------------------------------------------------------
(* The locks.  A request that holds the job target never extracts again;   *)
(* only the kit holds a letter, which it never does while it waits; and no *)
(* two requests hold the same version's row.                               *)

RowWrites == {"text", "template"}
TakesInOrder(q) ==
    /\ "job" \in q.wrote => q.stage # "extracting"
    /\ "letter" \in q.wrote => q.kind = "kit"
LockInv ==
    /\ IndInv
    /\ \A r \in Requests : TakesInOrder(req[r])
    /\ \A r \in Requests : req[r].wrote \cap RowWrites # {} => RowHolders(r) = {}

(* What a step's session holds after it: nothing when it begins, ends or   *)
(* commits, what it held and what the step waited for otherwise.           *)
HoldsNothing(q) == q.wrote = {}
HoldsMore(r, q) ==
    LET p == req[r]
    IN  /\ q.stage # "extracting"
        /\ q.kind = p.kind
        /\ "letter" \in q.wrote => "letter" \in p.wrote \/ p.kind = "kit"
        /\ q.wrote \cap RowWrites # {} =>
             /\ q.ver = p.ver
             /\ p.wrote \cap RowWrites # {} \/ RowHolders(r) = {}

LEMMA BeginHoldsNothing ==
    ASSUME IndInv, NEW r \in Requests, Begin(r)
    PROVE  HoldsNothing(req'[r])
<1> USE DEF IndInv, TypeOK, HoldsNothing, Arrive, Idle
<1>1. ASSUME NEW force \in BOOLEAN, NEW tone \in Tones, NEW switch \in Templates \cup {None},
             KitBegin(r, force, tone, switch)
      PROVE  HoldsNothing(req'[r])
  BY <1>1 DEF KitBegin, AfterExtraction, Onward
<1>2. ASSUME TailorBegin(r) PROVE HoldsNothing(req'[r])
  BY <1>2 DEF TailorBegin, AfterExtraction, Onward
<1>3. ASSUME NEW v \in Versions, NEW kind \in {"render", "docx"},
             NEW switch \in Templates \cup {None}, RenderBegin(r, v, kind, switch)
      PROVE  HoldsNothing(req'[r])
  BY <1>3 DEF RenderBegin, Loaded
<1>4. ASSUME NEW v \in Versions, NEW tone \in Tones, LetterBegin(r, v, tone)
      PROVE  HoldsNothing(req'[r])
  BY <1>4 DEF LetterBegin, Loaded, AfterExtraction, Onward
<1>5. ASSUME NEW v \in Versions, NEW tone \in Tones, NEW switch \in Templates \cup {None},
             LetterRenderBegin(r, v, tone, switch)
      PROVE  HoldsNothing(req'[r])
  BY <1>5 DEF LetterRenderBegin, Loaded
<1>6. ASSUME NEW v \in Versions, DeleteBegin(r, v) \/ TrackBegin(r, v) \/ CreateBegin(r, v)
      PROVE  HoldsNothing(req'[r])
  <2>1. PICK stage \in {"deleting", "applying"}, kind \in {"delete", "track", "create"} :
          Arrive(r, [Loaded(v) EXCEPT !.stage = stage, !.kind = kind])
    BY <1>6 DEF DeleteBegin, TrackBegin, CreateBegin
  <2> QED
    BY <2>1 DEF Loaded
<1> QED
  BY <1>1, <1>2, <1>3, <1>4, <1>5, <1>6 DEF Begin

LEMMA StepHolds ==
    ASSUME IndInv, NEW r \in Requests, Takes(r)
    PROVE  HoldsNothing(req'[r]) \/ HoldsMore(r, req'[r])
<1> DEFINE p == req[r]
<1>1. /\ req \in [Requests -> Request] /\ p \in Request /\ SessionShape(p)
  BY SessionKnown
<1>2. CASE Begin(r)
  BY <1>2, BeginHoldsNothing
<1>3. CASE \/ InsertRefused(r) \/ PdfAmbiguous(r) \/ LetterRefused(r) \/ Fails(r)
           \/ CommitLetter(r) \/ LetterPdfThere(r) \/ LetterCommits(r)
           \/ ApplyCommit(r) \/ DeleteCommit(r) \/ \E text \in Texts : TailorCommits(r, text)
  <2>1. End(r)
    BY <1>3 DEF InsertRefused, PdfAmbiguous, LetterRefused, Fails, CommitLetter, LetterPdfThere,
       LetterCommits, ApplyCommit, DeleteCommit, TailorCommits
  <2>2. req'[r] = Idle
    BY <1>1, <2>1 DEF End
  <2> QED
    BY <2>2 DEF HoldsNothing, Idle
<1>4. CASE Extract(r)
  <2>1. /\ req'[r].kind = p.kind /\ req'[r].wrote = p.wrote \cup {"job"}
        /\ req'[r].stage \in {"loading", "tailoring", "writing"}
        /\ req'[r].ver = p.ver
    BY <1>1, <1>4 DEF Extract, Onward, SessionShape, Request
  <2> QED
    BY <2>1 DEF HoldsMore, RowWrites
<1>5. CASE LoadVersion(r)
  <2>1. req'[r].kind = p.kind /\ req'[r].wrote = p.wrote /\ p.stage = "loading"
        /\ req'[r].stage \in {"tailoring", "pdf"}
    <3>1. CASE Go(r, "tailoring")
      BY <1>1, <1>5, <3>1 DEF Go, Request, LoadVersion
    <3>2. ASSUME NEW v \in Live, NEW stage \in {"tailoring", "pdf"},
                 req'[r] = [p EXCEPT !.ver = v, !.text = rows[v].text,
                                     !.template = rows[v].template, !.stage = stage]
          PROVE  /\ req'[r].kind = p.kind /\ req'[r].wrote = p.wrote
                 /\ req'[r].stage \in {"tailoring", "pdf"}
      BY <1>1, <3>2 DEF Request
    <3> QED
      BY <1>1, <1>5, <3>1, <3>2 DEF LoadVersion
  <2>2. p.wrote \cap RowWrites = {} /\ "letter" \notin p.wrote
    BY <1>1, <2>1 DEF SessionShape, RowWrites
  <2> QED
    BY <2>1, <2>2 DEF HoldsMore
<1>6. ASSUME NEW text \in Texts, Tailored(r, text) PROVE HoldsMore(r, req'[r])
  <2>1. p.stage = "tailoring"
    BY <1>6 DEF Tailored
  <2>2. p.wrote \cap RowWrites = {} /\ "letter" \notin p.wrote
    BY <1>1, <2>1 DEF SessionShape, RowWrites
  <2>3. CASE /\ RowHolders(r) = {}
             /\ req'[r] = [p EXCEPT !.text = text, !.wrote = @ \cup {"text"}, !.stage = "pdf"]
    <3>1. /\ req'[r].kind = p.kind /\ req'[r].wrote = p.wrote \cup {"text"}
          /\ req'[r].stage = "pdf" /\ req'[r].ver = p.ver
      BY <1>1, <2>3 DEF Request
    <3> QED
      BY <2>2, <2>3, <3>1 DEF HoldsMore
  <2>4. ASSUME NEW n,
               req'[r] = [p EXCEPT !.ver = n, !.text = text, !.template = Classic,
                                   !.wrote = @ \cup {"insert"}, !.stage = "pdf"]
        PROVE  HoldsMore(r, req'[r])
    <3>1. /\ req'[r].kind = p.kind /\ req'[r].wrote = p.wrote \cup {"insert"}
          /\ req'[r].stage = "pdf"
      BY <1>1, <2>4 DEF Request
    <3> QED
      BY <2>2, <3>1 DEF HoldsMore, RowWrites
  <2> QED
    BY <1>1, <1>6, <2>3, <2>4 DEF Tailored
<1>7. CASE PdfThere(r) \/ LoadLetter(r)
  <2>1. /\ req'[r].kind = p.kind /\ req'[r].wrote = p.wrote /\ req'[r].ver = p.ver
        /\ req'[r].stage \in {"letter", "letterpdf", "writing"}
    BY <1>1, <1>7 DEF PdfThere, LoadLetter, Go, Request
  <2> QED
    BY <2>1 DEF HoldsMore
<1>8. CASE LetterWritten(r)
  <2>1. /\ req'[r].kind = p.kind /\ req'[r].wrote = p.wrote \cup {"letter"}
        /\ req'[r].ver = p.ver /\ req'[r].stage = "letterpdf" /\ p.kind = "kit"
    BY <1>1, <1>8 DEF LetterWritten, Request
  <2> QED
    BY <2>1 DEF HoldsMore, RowWrites
<1>9. ASSUME NEW stage \in {"put", "letterput"}, FlushTemplate(r, stage)
      PROVE  HoldsMore(r, req'[r])
  <2>1. /\ req'[r].kind = p.kind /\ req'[r].ver = p.ver /\ req'[r].stage = stage
        /\ req'[r].wrote = IF Switches(r) THEN p.wrote \cup {"template"} ELSE p.wrote
    BY <1>1, <1>9 DEF FlushTemplate, Request
  <2>2. Switches(r) => RowHolders(r) = {}
    BY <1>9 DEF FlushTemplate
  <2> QED
    BY <2>1, <2>2 DEF HoldsMore
<1>10. CASE PutPdf(r) \/ PutLetter(r)
  <2>1. CASE Go(r, "letterput")
    <3>1. /\ req'[r].kind = p.kind /\ req'[r].wrote = p.wrote /\ req'[r].ver = p.ver
          /\ req'[r].stage = "letterput"
      BY <1>1, <2>1 DEF Go, Request
    <3> QED
      BY <3>1 DEF HoldsMore
  <2> QED
    BY <1>9, <1>10, <2>1 DEF PutPdf, PutLetter
<1>11. CASE CommitPdf(r)
  <2>1. CASE p.kind = "kit"
    BY <1>1, <1>11, <2>1 DEF CommitPdf, HoldsNothing, Request
  <2>2. CASE p.kind # "kit"
    BY <1>1, <1>11, <2>2 DEF CommitPdf, End, Idle, HoldsNothing
  <2> QED
    BY <2>1, <2>2
<1> QED
  BY <1>2, <1>3, <1>4, <1>5, <1>6, <1>7, <1>8, <1>10, <1>11, QuietOrCommits DEF Quiet

LEMMA LockInvInductive == LockInv /\ [Next]_vars => LockInv'
<1> SUFFICES ASSUME LockInv, [Next]_vars PROVE LockInv'
  OBVIOUS
<1>1. IndInv /\ IndInv'
  BY NextInductive DEF LockInv
<1>2. CASE UNCHANGED vars
  BY <1>1, <1>2 DEF vars, LockInv, TakesInOrder, RowHolders, Others
<1>3. CASE Next
  <2>1. PICK r \in Requests : Takes(r)
    BY <1>3 DEF Next, Takes
  <2> DEFINE p == req[r]
             q == req'[r]
  <2>2. \A o \in Requests \ {r} : req'[o] = req[o]
    BY <1>1, <2>1, OneSession
  <2>3. HoldsNothing(q) \/ HoldsMore(r, q)
    BY <1>1, <2>1, StepHolds
  <2>4. TakesInOrder(q)
    BY <2>3 DEF HoldsNothing, HoldsMore, TakesInOrder, LockInv
  <2>5. q.wrote \cap RowWrites # {} => q.ver = p.ver /\ RowHolders(r) = {}
    BY <2>3 DEF HoldsNothing, HoldsMore, LockInv
  <2>6. q.wrote \cap RowWrites # {} => RowHolders(r)' = {}
    BY <2>2, <2>5 DEF RowHolders, Others
  <2>7. ASSUME NEW o \in Requests \ {r}, req'[o].wrote \cap RowWrites # {}
        PROVE  RowHolders(o)' = {}
    <3>1. RowHolders(o) = {}
      BY <2>2, <2>7 DEF LockInv
    <3>2. q.wrote \cap RowWrites # {} => q.ver # req[o].ver
      BY <2>2, <2>5, <2>7 DEF RowHolders, Others, RowWrites
    <3> QED
      BY <2>2, <3>1, <3>2 DEF RowHolders, Others, RowWrites
  <2> HIDE DEF q
  <2> QED
    BY <1>1, <2>2, <2>4, <2>6, <2>7 DEF LockInv, q
<1> QED
  BY <1>2, <1>3

(* Whoever holds a version, its row or a letter waits for nobody.          *)
LEMMA HoldersGoOn ==
    ASSUME LockInv, NEW o \in Requests, req[o].wrote \cap {"text", "template", "insert", "letter"} # {}
    PROVE  WaitsFor(o) = {}
<1> DEFINE p == req[o]
<1>1. p \in Request /\ SessionShape(p) /\ TakesInOrder(p)
  BY SessionKnown DEF LockInv
<1>2. /\ p.stage \in {"pdf", "put", "letterpdf", "letterput"}
      /\ p.stage = "pdf" => p.wrote \cap {"text", "insert"} # {}
      /\ p.stage = "letterpdf" => p.kind = "kit"
  BY <1>1 DEF SessionShape, TakesInOrder
<1>3. p.wrote \cap {"text", "insert"} # {} => RowHolders(o) = {}
  <2>1. CASE "text" \in p.wrote
    BY <2>1 DEF LockInv, RowWrites
  <2>2. CASE "insert" \in p.wrote
    <3>1. InsertHolders(o) = {} /\ (p.ver # None => rows[p.ver] = None)
      BY <2>2 DEF LockInv, IndInv, SessionsCoherent
    <3>2. p.ver # None
      BY <1>1, <2>2 DEF SessionShape, Holding
    <3>3. ASSUME NEW s \in Others(o) PROVE req[s].ver # p.ver
      <4>1. "insert" \notin req[s].wrote /\ s \in Requests
        BY <3>1, <3>3 DEF InsertHolders, Others
      <4> QED
        BY <3>1, <3>2, <4>1 DEF LockInv, IndInv, SessionsCoherent
    <3> QED
      BY <3>3 DEF RowHolders
  <2> QED
    BY <2>1, <2>2
<1> QED
  BY <1>2, <1>3 DEF WaitsFor, WritesRow

(* Who waits for the job target waits for one that is past extracting, and *)
(* that one waits at most for one that goes on.                            *)
THEOREM LocksAreOrdered == Spec => []NobodyWaitsInACircle
<1>1. Init => LockInv
  BY InitInductive DEF Init, LockInv, TakesInOrder, Idle, RowWrites
<1>2. LockInv => NobodyWaitsInACircle
  <2> SUFFICES ASSUME LockInv, NEW some \in SUBSET Requests, some # {}
               PROVE  \E r \in some : WaitsFor(r) \cap some = {}
    BY DEF NobodyWaitsInACircle
  <2>1. ASSUME NEW r \in Requests, NEW o \in WaitsFor(r)
        PROVE  /\ o \in Requests
               /\ \/ WaitsFor(o) = {}
                  \/ "job" \in req[o].wrote /\ req[r].stage = "extracting"
    <3>1. /\ o \in Requests
          /\ \/ req[o].wrote \cap {"text", "template", "insert", "letter"} # {}
             \/ "job" \in req[o].wrote /\ req[r].stage = "extracting"
      BY <2>1 DEF WaitsFor, JobHolders, RowHolders, InsertHolders, LetterHolders, Others
    <3> QED
      BY <3>1, HoldersGoOn
  <2>2. ASSUME NEW r \in Requests, NEW o \in WaitsFor(r), NEW s \in WaitsFor(o)
        PROVE  WaitsFor(s) = {}
    <3>1. o \in Requests /\ "job" \in req[o].wrote
      BY <2>1, <2>2
    <3>2. req[o].stage # "extracting"
      BY <3>1 DEF LockInv, TakesInOrder
    <3> QED
      BY <2>1, <2>2, <3>1, <3>2
  <2>3. PICK r \in some : TRUE
    OBVIOUS
  <2>4. CASE \E o \in WaitsFor(r) \cap some : WaitsFor(o) \cap some # {}
    <3>1. PICK o \in WaitsFor(r) \cap some : WaitsFor(o) \cap some # {}
      BY <2>4
    <3>2. PICK s \in WaitsFor(o) \cap some : TRUE
      BY <3>1
    <3>3. WaitsFor(s) = {}
      BY <2>2, <2>3, <3>1, <3>2
    <3> QED
      BY <3>2, <3>3
  <2> QED
    BY <2>3, <2>4
<1> QED
  BY <1>1, <1>2, LockInvInductive, PTL DEF Spec

-----------------------------------------------------------------------------
(* How far a request is from its end, at most. *)

Ahead(stage) ==
    CASE stage = "extracting" -> 10
      [] stage = "loading"    -> 9
      [] stage = "tailoring"  -> 8
      [] stage = "pdf"        -> 7
      [] stage = "put"        -> 6
      [] stage = "letter"     -> 5
      [] stage = "writing"    -> 4
      [] stage = "letterpdf"  -> 3
      [] stage = "letterput"  -> 2
      [] stage = "deleting"   -> 1
      [] stage = "applying"   -> 1
      [] stage = "idle"       -> 0

(* Every step of a request but its beginning takes it nearer to its end,   *)
(* and no step of another takes it back: with LocksAreOrdered, why         *)
(* requests end when the locks are granted in turn.                        *)
THEOREM RequestsGoForward ==
    Spec => [][\A r \in Requests :
                 /\ Step(r) => Ahead(req'[r].stage) < Ahead(req[r].stage)
                 /\ req[r].stage # "idle" => Ahead(req'[r].stage) <= Ahead(req[r].stage)]_vars
<1>1. ASSUME IndInv, NEW r \in Requests, Step(r)
      PROVE  Ahead(req'[r].stage) < Ahead(req[r].stage)
  <2> DEFINE p == req[r]
  <2>1. /\ req \in [Requests -> Request] /\ p \in Request /\ SessionShape(p)
    BY <1>1, SessionKnown
  <2>2. CASE \/ InsertRefused(r) \/ PdfAmbiguous(r) \/ LetterRefused(r)
             \/ CommitLetter(r) \/ LetterPdfThere(r) \/ LetterCommits(r)
             \/ ApplyCommit(r) \/ DeleteCommit(r) \/ \E text \in Texts : TailorCommits(r, text)
    <3>1. End(r) /\ p.stage \in {"tailoring", "pdf", "writing", "letterput", "letterpdf",
                                 "applying", "deleting"}
      BY <2>2 DEF InsertRefused, PdfAmbiguous, LetterRefused, CommitLetter, LetterPdfThere,
         LetterCommits, ApplyCommit, DeleteCommit, TailorCommits
    <3>2. req'[r].stage = "idle"
      BY <2>1, <3>1 DEF End, Idle
    <3> QED
      BY <3>1, <3>2 DEF Ahead
  <2>3. CASE Extract(r)
    <3>1. p.stage = "extracting" /\ req'[r].stage \in {"loading", "tailoring", "writing"}
      BY <2>1, <2>3 DEF Extract, Onward, SessionShape
    <3> QED
      BY <3>1 DEF Ahead
  <2>4. CASE LoadVersion(r)
    <3>1. CASE Go(r, "tailoring")
      <4>1. req'[r] = [p EXCEPT !.stage = "tailoring"] /\ p.stage = "loading"
        BY <2>1, <2>4, <3>1 DEF Go, LoadVersion
      <4> QED
        BY <2>1, <4>1 DEF Ahead, Request
    <3>2. ASSUME NEW v \in Live, NEW stage \in {"tailoring", "pdf"},
                 req'[r] = [p EXCEPT !.ver = v, !.text = rows[v].text,
                                     !.template = rows[v].template, !.stage = stage]
          PROVE  req'[r].stage \in {"tailoring", "pdf"}
      BY <2>1, <3>2 DEF Request
    <3>3. CASE ~ Go(r, "tailoring")
      <4>1. req'[r].stage \in {"tailoring", "pdf"} /\ p.stage = "loading"
        BY <2>1, <2>4, <3>2, <3>3 DEF LoadVersion
      <4> QED
        BY <4>1 DEF Ahead
    <3> QED
      BY <3>1, <3>3
  <2>5. ASSUME NEW text \in Texts, Tailored(r, text)
        PROVE  Ahead(req'[r].stage) < Ahead(p.stage)
    <3>1. /\ p.stage = "tailoring"
          /\ \/ req'[r] = [p EXCEPT !.text = text, !.wrote = @ \cup {"text"}, !.stage = "pdf"]
             \/ req'[r] = [p EXCEPT !.ver = CHOOSE v \in Unused : TRUE, !.text = text,
                                    !.template = Classic, !.wrote = @ \cup {"insert"},
                                    !.stage = "pdf"]
      BY <2>1, <2>5 DEF Tailored
    <3>2. ASSUME NEW n, NEW wrote,
                 \/ req'[r] = [p EXCEPT !.text = text, !.wrote = wrote, !.stage = "pdf"]
                 \/ req'[r] = [p EXCEPT !.ver = n, !.text = text, !.template = Classic,
                                        !.wrote = wrote, !.stage = "pdf"]
          PROVE  req'[r].stage = "pdf"
      BY <2>1, <3>2 DEF Request
    <3>3. req'[r].stage = "pdf"
      BY <3>1, <3>2
    <3> QED
      BY <3>1, <3>3 DEF Ahead
  <2>6. CASE PdfThere(r)
    <3>1. p.stage = "pdf" /\ req'[r].stage = "letter"
      BY <2>1, <2>6 DEF PdfThere, Go
    <3> QED
      BY <3>1 DEF Ahead
  <2>7. CASE LoadLetter(r)
    <3>1. p.stage = "letter" /\ req'[r].stage \in {"writing", "letterpdf"}
      BY <2>1, <2>7 DEF LoadLetter
    <3> QED
      BY <3>1 DEF Ahead
  <2>8. CASE LetterWritten(r)
    <3>1. p.stage = "writing" /\ req'[r].stage = "letterpdf"
      BY <2>1, <2>8 DEF LetterWritten
    <3> QED
      BY <3>1 DEF Ahead
  <2>9. CASE PutPdf(r)
    <3>1. p.stage = "pdf" /\ req'[r].stage = "put"
      BY <2>1, <2>9 DEF PutPdf, FlushTemplate
    <3> QED
      BY <3>1 DEF Ahead
  <2>10. CASE PutLetter(r)
    <3>1. p.stage = "letterpdf" /\ (Go(r, "letterput") \/ FlushTemplate(r, "letterput"))
      BY <2>10 DEF PutLetter
    <3>2. CASE Go(r, "letterput")
      <4>1. req'[r] = [p EXCEPT !.stage = "letterput"]
        BY <2>1, <3>2 DEF Go
      <4> QED
        BY <2>1, <3>1, <4>1 DEF Ahead, Request
    <3>3. CASE FlushTemplate(r, "letterput")
      BY <2>1, <3>1, <3>3 DEF FlushTemplate, Ahead
    <3> QED
      BY <3>1, <3>2, <3>3
  <2>11. CASE CommitPdf(r)
    <3>1. CASE p.kind = "kit"
      <4>1. p.stage = "put" /\ req'[r] = [p EXCEPT !.wrote = {}, !.stage = "letter"]
        BY <2>1, <2>11, <3>1 DEF CommitPdf
      <4>2. req'[r].stage = "letter"
        BY <2>1, <4>1 DEF Request
      <4> QED
        BY <4>1, <4>2 DEF Ahead
    <3>2. CASE p.kind # "kit"
      <4>1. p.stage = "put" /\ req'[r] = Idle
        BY <2>1, <2>11, <3>2 DEF CommitPdf, End
      <4> QED
        BY <4>1 DEF Ahead, Idle
    <3> QED
      BY <3>1, <3>2
  <2> QED
    BY <1>1, <2>2, <2>3, <2>4, <2>5, <2>6, <2>7, <2>8, <2>9, <2>10, <2>11 DEF Step
<1>2. ASSUME IndInv, NEW r \in Requests, req[r].stage # "idle", Begin(r)
      PROVE  FALSE
  BY <1>2 DEF Begin, KitBegin, TailorBegin, RenderBegin, LetterBegin, LetterRenderBegin,
     DeleteBegin, TrackBegin, CreateBegin, Arrive
<1>3. \A stage \in Stages : Ahead(stage) \in Nat
  BY DEF Ahead, Stages
<1>4. ASSUME IndInv, NEW r \in Requests, req[r].stage # "idle", Fails(r)
      PROVE  Ahead(req'[r].stage) < Ahead(req[r].stage)
  <2>1. req'[r].stage = "idle" /\ req[r].stage \in Stages
    BY <1>4, SessionKnown DEF Fails, End, Idle, Request
  <2> QED
    BY <1>4, <2>1 DEF Ahead, Stages
<1>5. ASSUME IndInv, Next, NEW r \in Requests, req[r].stage # "idle"
      PROVE  Ahead(req'[r].stage) <= Ahead(req[r].stage)
  <2>1. PICK o \in Requests : Takes(o)
    BY <1>5 DEF Next, Takes
  <2>2. req[r].stage \in Stages
    BY <1>5, SessionKnown DEF Request
  <2>3. CASE o # r
    BY <1>3, <1>5, <2>1, <2>2, <2>3, OneSession
  <2>4. CASE o = r
    <3>1. Ahead(req'[r].stage) < Ahead(req[r].stage)
      BY <1>1, <1>2, <1>4, <1>5, <2>1, <2>4 DEF Takes
    <3>2. req'[r].stage \in Stages
      <4>1. IndInv'
        BY <1>5, NextInductive
      <4> QED
        BY <4>1 DEF IndInv, TypeOK, Request
    <3> QED
      BY <1>3, <2>2, <3>1, <3>2
  <2> QED
    BY <2>3, <2>4
<1>6. IndInv /\ [Next]_vars =>
        [\A r \in Requests :
           /\ Step(r) => Ahead(req'[r].stage) < Ahead(req[r].stage)
           /\ req[r].stage # "idle" => Ahead(req'[r].stage) <= Ahead(req[r].stage)]_vars
  BY <1>1, <1>5
<1> QED
  BY <1>6, Inductive, PTL DEF Spec
=============================================================================
