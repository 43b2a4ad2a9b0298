---------------------------- MODULE MatchingProofs ----------------------------
(***************************************************************************)
(* Proofs about Matching, for any users, searches and postings, and        *)
(* however many requests refresh while the worker does.                    *)
(***************************************************************************)
EXTENDS Matching, TLAPS

FeedGood == FeedTypeOK /\ \A p \in stored : content[p] \in Contents

Scores == [PostingIds -> Match \cup {None}]
Texts == [PostingIds -> Contents \cup {None}]

SessionRow ==
    [stage : {"scoring", "extracting"}, search : Searches, todo : SUBSET PostingIds,
     text : Texts, cached : Texts, known : Scores, fresh : Scores,
     data : Resumes \cup {None}, reading : PostingIds \cup {None}]

(* A session has read the text of what it is to score, and stays within    *)
(* its search's scope.                                                     *)
GoodSession ==
    {x \in SessionRow :
        /\ \A p \in x.todo : x.text[p] \in Contents /\ Home[p] \in Scope[x.search]
        /\ \A p \in PostingIds : x.fresh[p] # None => Home[p] \in Scope[x.search]
        /\ x.stage = "extracting" => x.reading \in x.todo /\ x.data \in Resumes}

MailerRow ==
    [stage : {"building"}, now : 1 .. MaxClock, todo : SUBSET Searches,
     built : [Searches -> SUBSET (PostingIds \X (1 .. MaxClock))]]

Typed ==
    /\ FeedGood
    /\ reqs \in Texts
    /\ matches \in [Searches -> Scores]
    /\ resume \in [Searches -> Resumes]
    /\ bar \in [Searches -> Bars \cup {None}]
    /\ enabled \subseteq Searches
    /\ lastSent \in [Searches -> 1 .. MaxClock \cup {None}]
    /\ digests \in [Searches -> Seq(SUBSET (PostingIds \X (1 .. MaxClock)))]
    /\ clock \in 0 .. MaxClock
    /\ session \in [Refreshers -> GoodSession \cup {Idle}]
    /\ mailer \in MailerRow \cup {Idle}
    /\ MatchesInScope

LEMMA IdleRests == Idle.stage = "idle" /\ Idle \notin SessionRow /\ Idle \notin MailerRow
<1>1. Idle.stage = "idle"
  BY DEF Idle
<1> QED
  BY <1>1 DEF SessionRow, MailerRow

(* The feed's own steps keep what is known of the feed.                    *)
LEMMA FeedKeeps ==
    ASSUME FeedGood, FeedByWorker \/ FeedByRequest
    PROVE  /\ FeedGood'
           /\ \A p \in stored' : content'[p] # content[p] \/ p \notin stored =>
                FeedByWorker
<1> USE DEF FeedGood, FeedTypeOK
<1>1. ASSUME NEW b \in Boards, NEW seen \in SUBSET Of(b), NEW says \in Says, Apply(b, seen, says)
      PROVE  FeedGood'
  BY <1>1 DEF Apply, Says, Of
<1>2. ASSUME NEW b \in Boards, NEW targets \in Targets, Link(b, targets) PROVE FeedGood'
  BY <1>2 DEF Link, Targets
<1>3. ASSUME NEW stale \in SUBSET active, Expire(stale) PROVE FeedGood'
  BY <1>3 DEF Expire
<1>4. ASSUME NEW b \in Boards, Register(b)
      PROVE  FeedGood' /\ stored' = stored /\ content' = content
  BY <1>4 DEF Register
<1>5. ASSUME NEW b \in Boards, Remove(b)
      PROVE  /\ FeedGood' /\ stored' \subseteq stored
             /\ \A p \in stored' : content'[p] = content[p]
  BY <1>5 DEF Remove, Of
<1>6. CASE FeedByWorker
  BY <1>1, <1>2, <1>3, <1>6 DEF FeedByWorker
<1>7. CASE FeedByRequest
  BY <1>4, <1>5, <1>7 DEF FeedByRequest
<1> QED
  BY <1>6, <1>7

LEMMA FeedTyped ==
    ASSUME Typed, FeedByWorker \/ FeedByRequest
    PROVE  Typed'
<1> USE DEF Typed
<1>1. FeedGood'
  BY FeedKeeps
<1>2. FollowFeed
  BY DEF FeedByWorker, FeedByRequest
<1>3. reqs' \in Texts /\ matches' \in [Searches -> Scores]
  BY <1>2 DEF FollowFeed, Texts, Scores
<1>4. MatchesInScope'
  BY <1>2 DEF FollowFeed, MatchesInScope
<1> QED
  BY <1>1, <1>2, <1>3, <1>4 DEF FollowFeed, digestVars

(* Of a refresher that works, its session is all that changes, or the      *)
(* rows it commits change with it.                                         *)
LEMMA SessionTyped ==
    ASSUME Typed, NEW r \in Refreshers, NEW x \in GoodSession \cup {Idle},
           session' = [session EXCEPT ![r] = x],
           UNCHANGED <<feedVars, resume, bar, enabled, digestVars>>,
           clock' \in 0 .. MaxClock, reqs' \in Texts,
           matches' = matches \/ (session[r] \in GoodSession /\ Commits(r) /\ matches' = Published(r))
    PROVE  Typed'
<1> USE DEF Typed
<1>1. session' \in [Refreshers -> GoodSession \cup {Idle}]
  OBVIOUS
<1>2. matches' \in [Searches -> Scores] /\ MatchesInScope'
  <2>1. CASE matches' = matches
    BY <2>1 DEF MatchesInScope, feedVars
  <2>2. CASE session[r] \in GoodSession /\ Commits(r) /\ matches' = Published(r)
    <3> DEFINE s == session[r].search
               fresh == session[r].fresh
    <3>1. s \in Searches /\ fresh \in Scores
      BY <2>2 DEF GoodSession, SessionRow
    <3>2. matches' = [matches EXCEPT ![s] = Overlay(matches[s], fresh)]
      BY <2>2 DEF Published
    <3>3. Overlay(matches[s], fresh) \in Scores
      BY <3>1 DEF Overlay, Scores
    <3>4. \A p \in PostingIds : Overlay(matches[s], fresh)[p] # None =>
             p \in stored /\ Home[p] \in Scope[s]
      BY <2>2, <3>1 DEF Overlay, Commits, GoodSession, MatchesInScope
    <3> HIDE DEF s, fresh
    <3> QED
      BY <3>1, <3>2, <3>3, <3>4 DEF MatchesInScope, feedVars
  <2> QED
    BY <2>1, <2>2
<1> QED
  BY <1>1, <1>2 DEF feedVars, digestVars, FeedGood, FeedTypeOK

LEMMA ScoredTyped ==
    ASSUME Typed, NEW r \in Refreshers, session[r] \in GoodSession, NEW p \in session[r].todo,
           clock < MaxClock, NEW text \in Contents, NEW data \in Resumes
    PROVE  Scored(r, p, text, data) \in Match
<1>1. session[r].text[p] \in Contents /\ clock + 1 \in 1 .. MaxClock
  BY MatchingAssumption DEF GoodSession, Typed
<1> QED
  BY <1>1 DEF Scored, Match

LEMMA RefreshTyped ==
    ASSUME Typed, NEW r \in Refreshers, RefreshStep(r)
    PROVE  Typed'
<1> USE DEF Typed
<1>0. /\ None \notin Contents \cup Resumes
      /\ session[r] # Idle => session[r] \in GoodSession /\ session[r] \in SessionRow
  BY FeedAssumption, MatchingAssumption DEF GoodSession
<1>1. ASSUME NEW s \in Searches, RefreshStart(r, s) PROVE Typed'
  <2> DEFINE x == [stage |-> "scoring", search |-> s, todo |-> Scorable(s),
          text |-> content, cached |-> reqs, known |-> matches[s],
          fresh |-> Unscored, data |-> None, reading |-> None]
  <2>1. x \in SessionRow
    BY DEF SessionRow, Scorable, FeedGood, FeedTypeOK, Texts, Scores, Unscored
  <2>2. x \in GoodSession
    BY <2>1 DEF GoodSession, Scorable, FeedGood, FeedTypeOK, Unscored
  <2> HIDE DEF x
  <2>3. session' = [session EXCEPT ![r] = x] /\ UNCHANGED <<feedVars, searchVars, digestVars, clock>>
    BY <1>1 DEF RefreshStart, x
  <2> QED
    BY <2>2, <2>3, SessionTyped DEF searchVars
<1>2. ASSUME NEW p \in PostingIds, RefreshSkips(r, p) PROVE Typed'
  <2>1. session[r] \in GoodSession /\ session[r] \in SessionRow
    BY <1>0, <1>2, IdleRests DEF RefreshSkips
  <2> DEFINE x == [session[r] EXCEPT !.todo = @ \ {p}]
  <2>2. x \in GoodSession
    <3>1. x \in SessionRow
      BY <2>1 DEF SessionRow
    <3>2. x.todo = session[r].todo \ {p} /\ x.stage = "scoring"
          /\ x.text = session[r].text /\ x.fresh = session[r].fresh /\ x.search = session[r].search
      BY <1>2, <2>1 DEF SessionRow, RefreshSkips
    <3> HIDE DEF x
    <3> QED
      BY <2>1, <3>1, <3>2 DEF GoodSession
  <2>3. session' = [session EXCEPT ![r] = x] /\ UNCHANGED <<feedVars, searchVars, digestVars, clock>>
    BY <1>2 DEF RefreshSkips
  <2> HIDE DEF x
  <2> QED
    BY <2>2, <2>3, SessionTyped DEF searchVars
<1>3. ASSUME NEW p \in PostingIds, RefreshScores(r, p) PROVE Typed'
  <2>1. session[r] \in GoodSession /\ session[r] \in SessionRow
    BY <1>0, <1>3, IdleRests DEF RefreshScores
  <2> DEFINE m == Scored(r, p, session[r].cached[p], resume[session[r].search])
             x == [session[r] EXCEPT !.todo = @ \ {p}, !.fresh = [@ EXCEPT ![p] = m]]
  <2>2. m \in Match
    <3>1. session[r].cached[p] \in Contents /\ resume[session[r].search] \in Resumes
      BY <1>3, <2>1 DEF SessionRow, Texts, RefreshScores
    <3> QED
      BY <1>3, <2>1, <3>1, ScoredTyped DEF RefreshScores
  <2> HIDE DEF m
  <2>3. x \in GoodSession
    <3>1. x \in SessionRow
      BY <2>1, <2>2 DEF SessionRow, Scores
    <3>2. /\ x.todo = session[r].todo \ {p} /\ x.stage = "scoring"
          /\ x.text = session[r].text /\ x.search = session[r].search
          /\ x.fresh = [session[r].fresh EXCEPT ![p] = m]
      BY <1>3, <2>1 DEF SessionRow, RefreshScores
    <3>3. Home[p] \in Scope[session[r].search]
      BY <1>3, <2>1 DEF RefreshScores, GoodSession
    <3> HIDE DEF x
    <3> QED
      BY <2>1, <3>1, <3>2, <3>3 DEF GoodSession, SessionRow, Scores
  <2>4. /\ session' = [session EXCEPT ![r] = x]
        /\ UNCHANGED <<feedVars, searchVars, digestVars>>
    BY <1>3 DEF RefreshScores, m
  <2>5. clock' \in 0 .. MaxClock
    BY <1>3, MatchingAssumption DEF RefreshScores
  <2> HIDE DEF x
  <2> QED
    BY <2>3, <2>4, <2>5, SessionTyped DEF searchVars
<1>4. ASSUME NEW p \in PostingIds, ExtractStart(r, p) PROVE Typed'
  <2>1. session[r] \in GoodSession /\ session[r] \in SessionRow
    BY <1>0, <1>4, IdleRests DEF ExtractStart
  <2> DEFINE d == resume[session[r].search]
             x == [session[r] EXCEPT !.stage = "extracting", !.reading = p, !.data = d]
  <2>2. d \in Resumes
    BY <2>1 DEF SessionRow
  <2> HIDE DEF d
  <2>3. x \in GoodSession
    <3>1. x \in SessionRow
      BY <2>1, <2>2 DEF SessionRow
    <3>2. /\ x.todo = session[r].todo /\ x.reading = p /\ x.data = d
          /\ x.text = session[r].text /\ x.search = session[r].search
          /\ x.fresh = session[r].fresh
      BY <2>1 DEF SessionRow
    <3>3. p \in session[r].todo
      BY <1>4 DEF ExtractStart
    <3> HIDE DEF x
    <3> QED
      BY <2>1, <2>2, <3>1, <3>2, <3>3 DEF GoodSession
  <2>4. session' = [session EXCEPT ![r] = x] /\ UNCHANGED <<feedVars, searchVars, digestVars, clock>>
    BY <1>4 DEF ExtractStart, d
  <2> HIDE DEF x
  <2> QED
    BY <2>3, <2>4, SessionTyped DEF searchVars
<1>5. CASE ExtractDone(r)
  <2>1. session[r] \in GoodSession /\ session[r] \in SessionRow
    BY <1>0, <1>5, IdleRests DEF ExtractDone
  <2> DEFINE p == session[r].reading
             text == session[r].text[p]
             m == Scored(r, p, text, session[r].data)
             x == [session[r] EXCEPT !.stage = "scoring", !.todo = @ \ {p},
                     !.known = Overlay(@, session[r].fresh),
                     !.fresh = [Unscored EXCEPT ![p] = m], !.data = None, !.reading = None]
  <2>2. /\ p \in session[r].todo /\ p \in PostingIds
        /\ text \in Contents /\ session[r].data \in Resumes
        /\ Home[p] \in Scope[session[r].search]
    BY <1>5, <2>1 DEF ExtractDone, GoodSession, SessionRow
  <2>3. m \in Match
    BY <1>5, <2>1, <2>2, ScoredTyped DEF ExtractDone
  <2>4. /\ reqs' = [reqs EXCEPT ![p] = text]
        /\ matches' = Published(r) /\ Commits(r)
        /\ session' = [session EXCEPT ![r] = x]
        /\ clock' = clock + 1 /\ clock < MaxClock
        /\ UNCHANGED <<feedVars, resume, bar, enabled, digestVars>>
    BY <1>5 DEF ExtractDone
  <2> HIDE DEF p, text, m
  <2>5. x \in GoodSession
    <3>1. Overlay(session[r].known, session[r].fresh) \in Scores
      BY <2>1 DEF SessionRow, Scores, Overlay
    <3>2. [Unscored EXCEPT ![p] = m] \in Scores
      BY <2>2, <2>3 DEF Unscored, Scores
    <3>3. x \in SessionRow
      BY <2>1, <3>1, <3>2 DEF SessionRow
    <3>4. /\ x.todo = session[r].todo \ {p} /\ x.stage = "scoring"
          /\ x.text = session[r].text /\ x.search = session[r].search
          /\ x.fresh = [Unscored EXCEPT ![p] = m]
      BY <2>1 DEF SessionRow
    <3> HIDE DEF x
    <3> QED
      BY <2>1, <2>2, <3>3, <3>4 DEF GoodSession, Unscored
  <2>6. clock' \in 0 .. MaxClock /\ reqs' \in Texts
    BY <2>2, <2>4, MatchingAssumption DEF Texts
  <2> HIDE DEF x
  <2> QED
    BY <2>1, <2>4, <2>5, <2>6, SessionTyped
<1>6. CASE RefreshFinish(r)
  <2>1. session[r] \in GoodSession
    BY <1>0, <1>6, IdleRests DEF RefreshFinish
  <2> QED
    BY <1>6, <2>1, SessionTyped DEF RefreshFinish
<1>7. CASE RefreshFails(r)
  BY <1>7, SessionTyped DEF RefreshFails, searchVars
<1> QED
  BY <1>1, <1>2, <1>3, <1>4, <1>5, <1>6, <1>7 DEF RefreshStep

LEMMA DigestTyped ==
    ASSUME Typed, DigestStart \/ (\E s \in Searches : BuildDigest(s)) \/ SendDigests \/ DigestFails
    PROVE  Typed'
<1> USE DEF Typed
<1>1. CASE DigestStart
  <2>1. mailer' \in MailerRow /\ clock' \in 0 .. MaxClock
    BY <1>1, MatchingAssumption DEF DigestStart, MailerRow
  <2> QED
    BY <1>1, <2>1 DEF DigestStart, feedVars, searchVars, FeedGood, FeedTypeOK, MatchesInScope
<1>2. ASSUME NEW s \in Searches, BuildDigest(s) PROVE Typed'
  <2>1. mailer \in MailerRow
    BY <1>2, IdleRests DEF BuildDigest
  <2>2. {<<p, matches[s][p].at>> : p \in NewMatches(s)} \in SUBSET (PostingIds \X (1 .. MaxClock))
    BY DEF NewMatches, Scores, Match, FeedGood, FeedTypeOK
  <2>3. mailer' = [mailer EXCEPT !.todo = @ \ {s},
                     !.built = [@ EXCEPT ![s] = {<<p, matches[s][p].at>> : p \in NewMatches(s)}]]
    BY <1>2 DEF BuildDigest
  <2>4. mailer' \in MailerRow
    BY <2>1, <2>2, <2>3 DEF MailerRow
  <2> QED
    BY <1>2, <2>4 DEF BuildDigest, feedVars, searchVars, FeedGood, FeedTypeOK, MatchesInScope
<1>3. CASE SendDigests
  <2>1. mailer \in MailerRow
    BY <1>3, IdleRests DEF SendDigests
  <2>2. \A s \in Searches : Append(digests[s], mailer.built[s]) \in Seq(SUBSET (PostingIds \X (1 .. MaxClock)))
    BY <2>1 DEF MailerRow
  <2>3. digests' \in [Searches -> Seq(SUBSET (PostingIds \X (1 .. MaxClock)))]
    BY <1>3, <2>2 DEF SendDigests
  <2>4. lastSent' \in [Searches -> 1 .. MaxClock \cup {None}]
    BY <1>3, <2>1 DEF SendDigests, MailerRow
  <2> QED
    BY <1>3, <2>3, <2>4 DEF SendDigests, feedVars, searchVars, FeedGood, FeedTypeOK, MatchesInScope
<1>4. CASE DigestFails
  BY <1>4 DEF DigestFails, feedVars, searchVars, FeedGood, FeedTypeOK, MatchesInScope
<1> QED
  BY <1>1, <1>2, <1>3, <1>4

LEMMA TypedInv == Spec => []Typed
<1>1. Init => Typed
  BY FeedAssumption, MatchingAssumption
     DEF Init, FeedInit, Typed, FeedGood, FeedTypeOK, Texts, Scores, Unscored, MatchesInScope
<1>2. Typed /\ [Next]_vars => Typed'
  <2> SUFFICES ASSUME Typed, [Next]_vars PROVE Typed'
    OBVIOUS
  <2>1. ASSUME NEW s \in Searches,
               \/ \E data \in Resumes : EditResume(s, data)
               \/ \E min \in Bars : CreateSearch(s, min)
               \/ \E min \in Bars, on \in BOOLEAN : UpdateSearch(s, min, on)
        PROVE  Typed'
    <3>1. /\ resume' \in [Searches -> Resumes]
          /\ bar' \in [Searches -> Bars \cup {None}]
          /\ enabled' \subseteq Searches
      BY <2>1 DEF EditResume, CreateSearch, UpdateSearch, Typed
    <3>2. UNCHANGED <<feedVars, reqs, matches, digestVars, clock, session>>
      BY <2>1 DEF EditResume, CreateSearch, UpdateSearch
    <3> QED
      BY <3>1, <3>2 DEF Typed, feedVars, digestVars, FeedGood, FeedTypeOK, MatchesInScope
  <2>2. CASE UNCHANGED vars
    BY <2>2 DEF vars, Typed, feedVars, searchVars, digestVars, FeedGood, FeedTypeOK, MatchesInScope
  <2> QED
    BY <2>1, <2>2, FeedTyped, RefreshTyped, DigestTyped DEF Next
<1> QED
  BY <1>1, <1>2, PTL DEF Spec

(* The types of the tables, and of what sessions hold.                     *)
THEOREM TypeCorrect == Spec => []TypeOK
<1>1. Typed => TypeOK
  BY DEF Typed, TypeOK, FeedGood, Texts, Scores, GoodSession, SessionRow, MailerRow
<1> QED
  BY <1>1, TypedInv, PTL

(* However many sessions refresh while boards come and go, no match is     *)
(* ever one of a posting outside the owner's scope, or of one that is gone. *)
THEOREM MatchesStayInScope == Spec => []MatchesInScope
  BY TypedInv, PTL DEF Typed

-----------------------------------------------------------------------------
(* What a step of a session changes, as far as texts and times go.         *)

Starts(r) ==
    /\ session[r] = Idle
    /\ session'[r].text = content
    /\ session'[r].fresh = Unscored
    /\ UNCHANGED <<reqs, matches, clock>>

Reads(r) == session[r] # Idle /\ session'[r].text = session[r].text

GoesOn(r) ==
    /\ Reads(r)
    /\ session'[r].fresh = session[r].fresh
    /\ UNCHANGED <<reqs, matches, clock>>

AddsScore(r) ==
    \E p \in PostingIds, m \in Match :
        /\ Reads(r)
        /\ m.at = clock + 1
        /\ session'[r].fresh = [session[r].fresh EXCEPT ![p] = m]
        /\ clock' = clock + 1
        /\ UNCHANGED <<reqs, matches>>

Extracts(r) ==
    \E p \in stored, m \in Match :
        /\ Reads(r)
        /\ m.at = clock + 1
        /\ session'[r].fresh = [Unscored EXCEPT ![p] = m]
        /\ clock' = clock + 1
        /\ reqs' = [reqs EXCEPT ![p] = session[r].text[p]]
        /\ matches' = Published(r)

EndsRefresh(r) ==
    /\ session[r] # Idle /\ session'[r] = Idle
    /\ matches' = matches \/ matches' = Published(r)
    /\ UNCHANGED <<reqs, clock>>

LEMMA SessionMoves ==
    ASSUME Typed, NEW r \in Refreshers, RefreshStep(r)
    PROVE  /\ UNCHANGED <<feedVars, resume, bar, enabled, digestVars>>
           /\ \A o \in Refreshers \ {r} : session'[o] = session[o]
           /\ Starts(r) \/ GoesOn(r) \/ AddsScore(r) \/ Extracts(r) \/ EndsRefresh(r)
<1> USE DEF Typed
<1>0. /\ None \notin Contents \cup Resumes
      /\ session[r] # Idle => session[r] \in GoodSession /\ session[r] \in SessionRow
  BY FeedAssumption, MatchingAssumption DEF GoodSession
<1>1. ASSUME NEW s \in Searches, RefreshStart(r, s) PROVE Starts(r)
  <2> DEFINE x == [stage |-> "scoring", search |-> s, todo |-> Scorable(s),
          text |-> content, cached |-> reqs, known |-> matches[s],
          fresh |-> Unscored, data |-> None, reading |-> None]
  <2>1. session'[r] = x /\ session[r] = Idle
        /\ UNCHANGED <<reqs, matches, clock>>
    BY <1>1 DEF RefreshStart, searchVars
  <2> QED
    BY <2>1 DEF Starts
<1>2. ASSUME NEW p \in PostingIds, RefreshSkips(r, p) PROVE GoesOn(r)
  <2>1. session[r] # Idle /\ session[r] \in SessionRow
    BY <1>0, <1>2, IdleRests DEF RefreshSkips
  <2>2. session'[r] = [session[r] EXCEPT !.todo = @ \ {p}]
    BY <1>2 DEF RefreshSkips
  <2> QED
    BY <1>2, <2>1, <2>2 DEF RefreshSkips, GoesOn, Reads, SessionRow, searchVars
<1>3. ASSUME NEW p \in PostingIds, RefreshScores(r, p) PROVE AddsScore(r)
  <2>1. session[r] # Idle /\ session[r] \in GoodSession /\ session[r] \in SessionRow
    BY <1>0, <1>3, IdleRests DEF RefreshScores
  <2> DEFINE m == Scored(r, p, session[r].cached[p], resume[session[r].search])
  <2>2. session[r].cached[p] \in Contents /\ resume[session[r].search] \in Resumes
    BY <1>3, <2>1 DEF SessionRow, Texts, RefreshScores
  <2>3. m \in Match
    BY <1>3, <2>1, <2>2, ScoredTyped DEF RefreshScores
  <2>4. m.at = clock + 1
    BY DEF Scored
  <2>5. session'[r] = [session[r] EXCEPT !.todo = @ \ {p}, !.fresh = [@ EXCEPT ![p] = m]]
    BY <1>3 DEF RefreshScores
  <2> HIDE DEF m
  <2>6. Reads(r) /\ session'[r].fresh = [session[r].fresh EXCEPT ![p] = m]
    BY <2>1, <2>5 DEF Reads, SessionRow
  <2>7. /\ clock' = clock + 1
        /\ UNCHANGED <<reqs, matches>>
    BY <1>3 DEF RefreshScores, searchVars
  <2> QED
    BY <2>3, <2>4, <2>6, <2>7 DEF AddsScore
<1>4. ASSUME NEW p \in PostingIds, ExtractStart(r, p) PROVE GoesOn(r)
  <2>1. session[r] # Idle /\ session[r] \in SessionRow
    BY <1>0, <1>4, IdleRests DEF ExtractStart
  <2>2. session'[r] = [session[r] EXCEPT !.stage = "extracting", !.reading = p,
                                         !.data = resume[session[r].search]]
    BY <1>4 DEF ExtractStart
  <2> QED
    BY <1>4, <2>1, <2>2 DEF ExtractStart, GoesOn, Reads, SessionRow, searchVars
<1>5. ASSUME ExtractDone(r) PROVE Extracts(r)
  <2>1. session[r] # Idle /\ session[r] \in GoodSession /\ session[r] \in SessionRow
    BY <1>0, <1>5, IdleRests DEF ExtractDone
  <2> DEFINE p == session[r].reading
             text == session[r].text[p]
             m == Scored(r, p, text, session[r].data)
  <2>2. /\ p \in session[r].todo /\ p \in stored
        /\ text \in Contents /\ session[r].data \in Resumes
    BY <1>5, <2>1 DEF ExtractDone, GoodSession, SessionRow
  <2>3. m \in Match
    BY <1>5, <2>1, <2>2, ScoredTyped DEF ExtractDone
  <2>4. m.at = clock + 1
    BY DEF Scored
  <2>5. session'[r] = [session[r] EXCEPT !.stage = "scoring", !.todo = @ \ {p},
                     !.known = Overlay(@, session[r].fresh),
                     !.fresh = [Unscored EXCEPT ![p] = m], !.data = None, !.reading = None]
    BY <1>5 DEF ExtractDone
  <2>6. reqs' = [reqs EXCEPT ![p] = text] /\ matches' = Published(r) /\ clock' = clock + 1
    BY <1>5 DEF ExtractDone
  <2> HIDE DEF m
  <2>7. Reads(r) /\ session'[r].fresh = [Unscored EXCEPT ![p] = m]
    BY <2>1, <2>5 DEF Reads, SessionRow
  <2>8. /\ p \in stored /\ m \in Match /\ Reads(r) /\ m.at = clock + 1
        /\ session'[r].fresh = [Unscored EXCEPT ![p] = m]
        /\ clock' = clock + 1
        /\ reqs' = [reqs EXCEPT ![p] = session[r].text[p]]
        /\ matches' = Published(r)
    BY <2>2, <2>3, <2>4, <2>6, <2>7
  <2> HIDE DEF p
  <2> QED
    BY <2>8 DEF Extracts
<1>6. CASE RefreshFinish(r)
  <2>1. session[r] # Idle
    BY <1>6, IdleRests DEF RefreshFinish
  <2> QED
    BY <1>6, <2>1 DEF RefreshFinish, EndsRefresh
<1>7. CASE RefreshFails(r)
  BY <1>7 DEF RefreshFails, EndsRefresh, searchVars
<1>8. UNCHANGED <<feedVars, resume, bar, enabled, digestVars>>
  BY DEF RefreshStep, RefreshStart, RefreshSkips, RefreshScores, ExtractStart, ExtractDone,
         RefreshFinish, RefreshFails, searchVars
<1>9. \A o \in Refreshers \ {r} : session'[o] = session[o]
  BY DEF RefreshStep, RefreshStart, RefreshSkips, RefreshScores, ExtractStart, ExtractDone,
         RefreshFinish, RefreshFails
<1> QED
  BY <1>1, <1>2, <1>3, <1>4, <1>5, <1>6, <1>7, <1>8, <1>9 DEF RefreshStep

LEMMA PublishedRows ==
    ASSUME Typed, NEW r \in Refreshers, session[r] # Idle, matches' = Published(r)
    PROVE  \A s \in Searches, p \in PostingIds :
              \/ matches'[s][p] = matches[s][p]
              \/ session[r].fresh[p] # None /\ matches'[s][p] = session[r].fresh[p]
<1>1. session[r] \in SessionRow /\ matches \in [Searches -> Scores]
  BY DEF Typed, GoodSession
<1>2. session[r].search \in Searches /\ session[r].fresh \in Scores
  BY <1>1 DEF SessionRow
<1> QED
  BY <1>1, <1>2 DEF Published, Overlay, Scores

-----------------------------------------------------------------------------
(* Texts.  While the worker refreshes it fetches nothing, so rows that are *)
(* still stored say what it has read, whatever requests do.                *)

ReadsAgree ==
    session[Worker] # Idle => \A p \in stored : content[p] = session[Worker].text[p]

LEMMA ReadsInv == Spec => []ReadsAgree
<1> USE MatchingAssumption
<1>1. Init => ReadsAgree
  BY DEF Init, ReadsAgree
<1>2. Typed /\ ReadsAgree /\ [Next]_vars => ReadsAgree'
  <2> SUFFICES ASSUME Typed, ReadsAgree, [Next]_vars PROVE ReadsAgree'
    OBVIOUS
  <2>1. CASE UNCHANGED <<feedVars, session>>
    BY <2>1 DEF ReadsAgree, feedVars
  <2>2. CASE FeedByWorker \/ FeedByRequest
    <3>1. session' = session
      BY <2>2 DEF FeedByWorker, FeedByRequest, FollowFeed
    <3>2. session[Worker] # Idle => \A p \in stored' : content'[p] = content[p] /\ p \in stored
      BY <2>2, FeedKeeps DEF FeedByWorker, WorkerFree, Typed
    <3> QED
      BY <3>1, <3>2 DEF ReadsAgree
  <2>3. ASSUME NEW r \in Refreshers, RefreshStep(r) PROVE ReadsAgree'
    <3>1. UNCHANGED <<stored, content>>
      BY <2>3, SessionMoves DEF feedVars
    <3>2. CASE r # Worker
      <4>1. session'[Worker] = session[Worker]
        BY <2>3, <3>2, SessionMoves
      <4> QED
        BY <3>1, <4>1 DEF ReadsAgree
    <3>3. CASE r = Worker
      <4>1. Starts(r) \/ GoesOn(r) \/ AddsScore(r) \/ Extracts(r) \/ EndsRefresh(r)
        BY <2>3, SessionMoves
      <4>2. CASE Starts(r)
        BY <3>1, <3>3, <4>2 DEF Starts, ReadsAgree
      <4>3. CASE GoesOn(r) \/ AddsScore(r) \/ Extracts(r)
        <5>1. Reads(r)
          BY <4>3 DEF GoesOn, AddsScore, Extracts
        <5> QED
          BY <3>1, <3>3, <5>1 DEF Reads, ReadsAgree
      <4>4. CASE EndsRefresh(r)
        BY <3>3, <4>4 DEF EndsRefresh, ReadsAgree
      <4> QED
        BY <4>1, <4>2, <4>3, <4>4
    <3> QED
      BY <3>2, <3>3
  <2> QED
    BY <2>1, <2>2, <2>3 DEF Next, vars, EditResume, CreateSearch, UpdateSearch, BuildDigest,
                            searchVars, DigestStart, SendDigests, DigestFails
<1> QED
  BY <1>1, <1>2, TypedInv, PTL DEF Spec

(* What an answer leaves of the requirements: the worker's are those of    *)
(* the text, and a request's are of the posting it was asked for.          *)
LEMMA AnswersStored ==
    ASSUME Typed, ReadsAgree, NEW r \in Refreshers, RefreshStep(r), NEW p \in PostingIds,
           reqs'[p] # reqs[p]
    PROVE  /\ r = Worker => reqs'[p] = content[p]
           /\ p \in Awaiting(r) \ Awaiting(r)'
<1>1. ExtractDone(r)
  BY DEF RefreshStep, RefreshStart, RefreshSkips, RefreshScores, ExtractStart, RefreshFinish,
         RefreshFails, searchVars
<1>2. session[r] # Idle /\ session[r] \in SessionRow /\ session \in [Refreshers -> GoodSession \cup {Idle}]
  BY <1>1, IdleRests DEF ExtractDone, Typed, GoodSession
<1> DEFINE q == session[r].reading
           x == [session[r] EXCEPT !.stage = "scoring", !.todo = @ \ {q},
                   !.known = Overlay(@, session[r].fresh),
                   !.fresh = [Unscored EXCEPT ![q] = Scored(r, q, session[r].text[q], session[r].data)],
                   !.data = None, !.reading = None]
<1>3. /\ session[r].stage = "extracting" /\ q \in stored
      /\ reqs' = [reqs EXCEPT ![q] = session[r].text[q]]
      /\ session' = [session EXCEPT ![r] = x]
  BY <1>1 DEF ExtractDone
<1>4. x.stage = "scoring"
  BY <1>2 DEF SessionRow
<1> HIDE DEF x
<1>5. session'[r].stage = "scoring"
  BY <1>2, <1>3, <1>4
<1>6. p = q /\ reqs'[p] = session[r].text[p]
  BY <1>3 DEF Typed, Texts
<1>7. p \in Awaiting(r) /\ Awaiting(r)' = {}
  BY <1>3, <1>5, <1>6 DEF Awaiting
<1>8. r = Worker => session[r].text[p] = content[p]
  BY <1>2, <1>3, <1>6 DEF ReadsAgree
<1> QED
  BY <1>6, <1>7, <1>8

(* Cached requirements stop being those of the text only by a request's    *)
(* late answer: never by a fetch, and never by the worker's own refresh,   *)
(* whatever requests do meanwhile (matching.py _get_or_extract_requirements). *)
THEOREM StaleOnlyByLateAnswers == Spec => OnlyLateAnswersGoStale
<1>1. Typed /\ ReadsAgree /\ [Next]_vars =>
        [\A p \in PostingIds :
           reqs[p] \in {None, content[p]} /\ reqs'[p] \notin {None, content'[p]} =>
              \E r \in Refreshers \ {Worker} : p \in Awaiting(r) \ Awaiting(r)']_vars
  <2> SUFFICES ASSUME Typed, ReadsAgree, [Next]_vars, NEW p \in PostingIds,
                      reqs[p] \in {None, content[p]}, reqs'[p] \notin {None, content'[p]}
               PROVE  \E r \in Refreshers \ {Worker} : p \in Awaiting(r) \ Awaiting(r)'
    OBVIOUS
  <2>1. CASE UNCHANGED <<reqs, content>>
    BY <2>1
  <2>2. CASE FeedByWorker \/ FeedByRequest
    BY <2>2 DEF FeedByWorker, FeedByRequest, FollowFeed
  <2>3. ASSUME NEW r \in Refreshers, RefreshStep(r)
        PROVE  r # Worker /\ p \in Awaiting(r) \ Awaiting(r)'
    <3>1. content' = content
      BY <2>3, SessionMoves DEF feedVars
    <3>2. reqs'[p] # reqs[p]
      BY <3>1
    <3> QED
      BY <2>3, <3>1, <3>2, AnswersStored
  <2> QED
    BY <2>1, <2>2, <2>3 DEF Next, vars, feedVars, EditResume, CreateSearch, UpdateSearch,
                            BuildDigest, searchVars, DigestStart, SendDigests, DigestFails
<1> QED
  BY <1>1, TypedInv, ReadsInv, PTL DEF Spec, OnlyLateAnswersGoStale

-----------------------------------------------------------------------------
(* Times.  No score is stamped in the future.                              *)

Entries == PostingIds \X (1 .. MaxClock)

Stamped ==
    /\ \A s \in Searches, p \in PostingIds : matches[s][p] # None => matches[s][p].at <= clock
    /\ \A r \in Refreshers : session[r] # Idle =>
         \A p \in PostingIds : session[r].fresh[p] # None => session[r].fresh[p].at <= clock

LEMMA RefreshKeepsTimes ==
    ASSUME Typed, Stamped, NEW r \in Refreshers, RefreshStep(r)
    PROVE  Stamped' /\ clock' \in Nat /\ clock' >= clock
<1>1. \A o \in Refreshers \ {r} : session'[o] = session[o]
  BY SessionMoves
<1>2. Starts(r) \/ GoesOn(r) \/ AddsScore(r) \/ Extracts(r) \/ EndsRefresh(r)
  BY SessionMoves
<1>3. /\ clock \in Nat
      /\ \A s \in Searches, p \in PostingIds : matches[s][p] # None => matches[s][p].at \in Nat
      /\ \A o \in Refreshers : session[o] # Idle =>
           /\ session[o].fresh \in Scores
           /\ \A p \in PostingIds : session[o].fresh[p] # None => session[o].fresh[p].at \in Nat
  <2>1. \A o \in Refreshers : session[o] # Idle => session[o].fresh \in Scores
    BY DEF Typed, GoodSession, SessionRow
  <2> QED
    BY <2>1, MatchingAssumption DEF Typed, Scores, Match
<1>4. CASE Starts(r)
  BY <1>1, <1>3, <1>4 DEF Starts, Stamped, Unscored
<1>5. CASE GoesOn(r)
  BY <1>1, <1>3, <1>5 DEF GoesOn, Reads, Stamped
<1>6. CASE AddsScore(r)
  <2>1. PICK p \in PostingIds, m \in Match :
          /\ session[r] # Idle
          /\ m.at = clock + 1 /\ clock' = clock + 1
          /\ session'[r].fresh = [session[r].fresh EXCEPT ![p] = m]
          /\ matches' = matches
    BY <1>6 DEF AddsScore, Reads
  <2>2. \A q \in PostingIds :
          session'[r].fresh[q] = IF q = p THEN m ELSE session[r].fresh[q]
    BY <1>3, <2>1 DEF Scores
  <2>3. \A q \in PostingIds : session'[r].fresh[q] # None => session'[r].fresh[q].at <= clock'
    BY <1>3, <2>1, <2>2 DEF Stamped
  <2>4. \A o \in Refreshers \ {r} : session[o] # Idle =>
          \A q \in PostingIds : session[o].fresh[q] # None => session[o].fresh[q].at <= clock'
    BY <1>3, <2>1 DEF Stamped
  <2>5. \A s \in Searches, q \in PostingIds : matches'[s][q] # None => matches'[s][q].at <= clock'
    BY <1>3, <2>1 DEF Stamped
  <2>6. clock' \in Nat /\ clock' >= clock
    BY <1>3, <2>1
  <2> QED
    BY <1>1, <2>3, <2>4, <2>5, <2>6 DEF Stamped
<1>7. CASE Extracts(r)
  <2>1. PICK p \in PostingIds, m \in Match :
          /\ session[r] # Idle
          /\ m.at = clock + 1 /\ clock' = clock + 1
          /\ session'[r].fresh = [Unscored EXCEPT ![p] = m]
          /\ matches' = Published(r)
    BY <1>7 DEF Extracts, Reads, Typed, FeedGood, FeedTypeOK
  <2>2. \A s \in Searches, q \in PostingIds : matches'[s][q] # None => matches'[s][q].at <= clock'
    BY <1>3, <2>1, PublishedRows DEF Stamped
  <2>3. \A q \in PostingIds : session'[r].fresh[q] # None => session'[r].fresh[q] = m
    BY <2>1 DEF Unscored
  <2>4. \A o \in Refreshers \ {r} : session[o] # Idle =>
          \A q \in PostingIds : session[o].fresh[q] # None => session[o].fresh[q].at <= clock'
    BY <1>3, <2>1 DEF Stamped
  <2>5. clock' \in Nat /\ clock' >= clock /\ m.at <= clock'
    BY <1>3, <2>1
  <2> QED
    BY <1>1, <2>2, <2>3, <2>4, <2>5 DEF Stamped
<1>8. CASE EndsRefresh(r)
  <2>1. \A s \in Searches, q \in PostingIds : matches'[s][q] # None => matches'[s][q].at <= clock
    BY <1>8, PublishedRows DEF Stamped, EndsRefresh
  <2> QED
    BY <1>1, <1>3, <1>8, <2>1 DEF EndsRefresh, Stamped
<1> QED
  BY <1>2, <1>4, <1>5, <1>6, <1>7, <1>8

LEMMA TimesInv == Spec => []Stamped
<1>1. Init => Stamped
  BY DEF Init, Stamped, Unscored
<1>2. Typed /\ Stamped /\ [Next]_vars => Stamped'
  <2> SUFFICES ASSUME Typed, Stamped, [Next]_vars PROVE Stamped'
    OBVIOUS
  <2>1. CASE UNCHANGED <<matches, clock, session>>
    BY <2>1 DEF Stamped
  <2>2. CASE FeedByWorker \/ FeedByRequest
    <3>1. FollowFeed
      BY <2>2 DEF FeedByWorker, FeedByRequest
    <3>2. \A s \in Searches, p \in PostingIds :
            matches'[s][p] # None => matches'[s][p] = matches[s][p]
      BY <3>1 DEF FollowFeed
    <3> QED
      BY <3>1, <3>2 DEF FollowFeed, Stamped
  <2>3. CASE \E r \in Refreshers : RefreshStep(r)
    BY <2>3, RefreshKeepsTimes
  <2>4. CASE DigestStart
    <3>1. /\ session' = session /\ clock \in Nat /\ clock' = clock + 1 /\ matches' = matches
          /\ \A s \in Searches, p \in PostingIds : matches[s][p] # None => matches[s][p].at \in Nat
          /\ \A r \in Refreshers : session[r] # Idle => session[r].fresh \in Scores
      BY <2>4 DEF DigestStart, searchVars, Typed, Scores, Match, GoodSession, SessionRow
    <3>2. \A r \in Refreshers : session[r] # Idle =>
            \A p \in PostingIds : session[r].fresh[p] # None => session[r].fresh[p].at \in Nat
      BY <3>1 DEF Scores, Match
    <3> QED
      BY <3>1, <3>2 DEF Stamped
  <2> QED
    BY <2>1, <2>2, <2>3, <2>4
       DEF Next, vars, EditResume, CreateSearch, UpdateSearch, BuildDigest, SendDigests,
           DigestFails, searchVars
<1> QED
  BY <1>1, <1>2, TypedInv, PTL DEF Spec

-----------------------------------------------------------------------------
(* Digests.  What a digest shows was stamped before the next one began: it *)
(* is not after the mark the next one leaves, and only the digest in       *)
(* between can be built from it again.                                     *)

Marked ==
    /\ \A s \in Searches : \A i \in 1 .. Len(digests[s]) :
         /\ lastSent[s] # None
         /\ \A e \in digests[s][i] :
              /\ e[2] <= clock
              /\ i < Len(digests[s]) => e[2] <= lastSent[s]
              /\ mailer # Idle => e[2] < mailer.now
    /\ mailer # Idle => \A s \in Searches : \A e \in mailer.built[s] :
         /\ e[2] <= clock
         /\ lastSent[s] # None => e[2] > lastSent[s]
    /\ DigestsRepeatAtMostOnce

LEMMA EntriesTyped ==
    ASSUME Typed
    PROVE  /\ clock \in Nat
           /\ \A s \in Searches :
                /\ digests[s] \in Seq(SUBSET Entries)
                /\ lastSent[s] # None => lastSent[s] \in Nat
                /\ \A i \in 1 .. Len(digests[s]) : \A e \in digests[s][i] : e[2] \in Nat
           /\ mailer # Idle =>
                /\ mailer \in MailerRow /\ mailer.now \in Nat
                /\ \A s \in Searches : \A e \in mailer.built[s] : e[2] \in Nat
<1>1. \A s \in Searches : digests[s] \in Seq(SUBSET Entries)
  BY DEF Typed, Entries
<1>2. mailer # Idle => mailer \in MailerRow
  BY DEF Typed
<1>3. clock \in Nat /\ \A s \in Searches : lastSent[s] # None => lastSent[s] \in Nat
  BY MatchingAssumption DEF Typed
<1>4. \A s \in Searches : \A i \in 1 .. Len(digests[s]) : \A e \in digests[s][i] : e[2] \in Nat
  BY <1>1 DEF Entries
<1>5. mailer # Idle => mailer.now \in Nat /\ \A s \in Searches : \A e \in mailer.built[s] : e[2] \in Nat
  BY <1>2, MatchingAssumption DEF MailerRow
<1> QED
  BY <1>1, <1>2, <1>3, <1>4, <1>5

LEMMA MailedOnce ==
    ASSUME Typed, Marked, SendDigests
    PROVE  Marked'
<1>1. mailer # Idle /\ mailer \in MailerRow /\ mailer' = Idle /\ clock' = clock
  BY IdleRests DEF SendDigests, Typed
<1>2. mailer.now # None
  BY <1>1, EntriesTyped, MatchingAssumption
<1>3. ASSUME NEW s \in Searches
      PROVE  /\ \A i \in 1 .. Len(digests'[s]) :
                  /\ lastSent'[s] # None
                  /\ \A e \in digests'[s][i] :
                       e[2] <= clock /\ (i < Len(digests'[s]) => e[2] <= lastSent'[s])
             /\ \A i, j \in 1 .. Len(digests'[s]) :
                  i + 1 < j => digests'[s][i] \cap digests'[s][j] = {}
  <2>1. CASE mailer.built[s] = {}
    <3>1. digests'[s] = digests[s] /\ lastSent'[s] = lastSent[s]
      BY <2>1 DEF SendDigests
    <3> QED
      BY <3>1 DEF Marked, DigestsRepeatAtMostOnce
  <2>2. CASE mailer.built[s] # {}
    <3> DEFINE d == digests[s]
               n == Len(digests[s])
               new == mailer.built[s]
               longer == Append(d, new)
    <3>1. digests'[s] = longer /\ lastSent'[s] = mailer.now
      BY <2>2 DEF SendDigests
    <3>2. /\ n \in Nat /\ Len(longer) = n + 1
          /\ \A i \in 1 .. n : longer[i] = d[i]
          /\ longer[n + 1] = new
      <4>1. d \in Seq(SUBSET Entries) /\ new \in SUBSET Entries
        BY <1>1, EntriesTyped DEF MailerRow, Entries
      <4> QED
        BY <4>1
    <3>3. \A i \in 1 .. n + 1 : i \in 1 .. n \/ i = n + 1
      BY <3>2
    <3>4. /\ \A i \in 1 .. n : /\ lastSent[s] # None
                              /\ \A e \in d[i] : /\ e[2] <= clock
                                                 /\ i < n => e[2] <= lastSent[s]
                                                 /\ e[2] < mailer.now
          /\ \A i, j \in 1 .. n : i + 1 < j => d[i] \cap d[j] = {}
          /\ \A e \in new : e[2] <= clock /\ (lastSent[s] # None => e[2] > lastSent[s])
      BY <1>1 DEF Marked, DigestsRepeatAtMostOnce
    <3>5. /\ \A i \in 1 .. n : \A e \in d[i] : e[2] \in Nat
          /\ \A e \in new : e[2] \in Nat
          /\ mailer.now \in Nat /\ (lastSent[s] # None => lastSent[s] \in Nat)
      BY <1>1, EntriesTyped
    <3> HIDE DEF d, n, new, longer
    <3>6. \A i \in 1 .. n : i < n => d[i] \cap new = {}
      <4> SUFFICES ASSUME NEW i \in 1 .. n, i < n, NEW e \in d[i], e \in new PROVE FALSE
        OBVIOUS
      <4>1. lastSent[s] \in Nat /\ e[2] \in Nat /\ e[2] <= lastSent[s] /\ e[2] > lastSent[s]
        BY <3>4, <3>5
      <4> QED
        BY <4>1
    <3>7. \A i \in 1 .. n : \A e \in d[i] : e[2] <= mailer.now
      BY <3>4, <3>5
    <3>8. \A i \in 1 .. n + 1 : \A e \in longer[i] :
            e[2] <= clock /\ (i < n + 1 => e[2] <= mailer.now)
      BY <3>2, <3>3, <3>4, <3>7
    <3>9. \A i, j \in 1 .. n + 1 : i + 1 < j => longer[i] \cap longer[j] = {}
      <4> SUFFICES ASSUME NEW i \in 1 .. n + 1, NEW j \in 1 .. n + 1, i + 1 < j
                   PROVE  longer[i] \cap longer[j] = {}
        OBVIOUS
      <4>1. i \in 1 .. n /\ i < n
        BY <3>2
      <4>2. CASE j \in 1 .. n
        BY <3>2, <3>4, <4>1, <4>2
      <4>3. CASE j = n + 1
        BY <3>2, <3>6, <4>1, <4>3
      <4> QED
        BY <3>3, <4>2, <4>3
    <3> QED
      BY <1>2, <3>1, <3>2, <3>8, <3>9
  <2> QED
    BY <2>1, <2>2
<1> QED
  BY <1>1, <1>3 DEF Marked, DigestsRepeatAtMostOnce

(* Nothing is sent, and the clock does not go back. *)
LEMMA MarkedStays ==
    ASSUME Typed, Marked, UNCHANGED <<lastSent, digests, mailer>>, clock' \in Nat, clock' >= clock
    PROVE  Marked'
<1>1. \A s \in Searches : \A i \in 1 .. Len(digests[s]) : \A e \in digests[s][i] :
        e[2] \in Nat /\ e[2] <= clock
  BY EntriesTyped DEF Marked
<1>2. mailer # Idle => \A s \in Searches : \A e \in mailer.built[s] : e[2] \in Nat /\ e[2] <= clock
  BY EntriesTyped DEF Marked
<1>3. clock \in Nat
  BY EntriesTyped
<1>4. \A s \in Searches : \A i \in 1 .. Len(digests[s]) : \A e \in digests[s][i] : e[2] <= clock'
  BY <1>1, <1>3
<1>5. mailer # Idle => \A s \in Searches : \A e \in mailer.built[s] : e[2] <= clock'
  BY <1>2, <1>3
<1> QED
  BY <1>4, <1>5 DEF Marked, DigestsRepeatAtMostOnce

LEMMA DigestsInv == Spec => []Marked
<1>1. Init => Marked
  BY DEF Init, Marked, DigestsRepeatAtMostOnce
<1>2. Typed /\ Stamped /\ Marked /\ [Next]_vars => Marked'
  <2> SUFFICES ASSUME Typed, Stamped, Marked, [Next]_vars PROVE Marked'
    OBVIOUS
  <2>0. clock \in Nat
    BY EntriesTyped
  <2>1. CASE UNCHANGED <<digestVars, clock>>
    BY <2>0, <2>1, MarkedStays DEF digestVars
  <2>2. CASE DigestStart
    <3>1. /\ mailer'.built = [s \in Searches |-> {}] /\ mailer'.now = clock + 1
          /\ clock' = clock + 1 /\ UNCHANGED <<lastSent, digests>>
      BY <2>2 DEF DigestStart
    <3>2. \A s \in Searches : \A i \in 1 .. Len(digests[s]) : \A e \in digests[s][i] :
            e[2] <= clock + 1 /\ e[2] < clock + 1
      BY <2>0, EntriesTyped DEF Marked
    <3> QED
      BY <3>1, <3>2 DEF Marked, DigestsRepeatAtMostOnce
  <2>3. ASSUME NEW s \in Searches, BuildDigest(s) PROVE Marked'
    <3>1. mailer \in MailerRow /\ mailer # Idle
      BY <2>3, IdleRests DEF BuildDigest, Typed
    <3> DEFINE new == {<<p, matches[s][p].at>> : p \in NewMatches(s)}
    <3>2. mailer'.now = mailer.now /\ mailer'.built = [mailer.built EXCEPT ![s] = new]
      BY <2>3, <3>1 DEF BuildDigest, MailerRow
    <3>3. \A e \in new : e[2] <= clock /\ (lastSent[s] # None => e[2] > lastSent[s])
      <4> SUFFICES ASSUME NEW p \in NewMatches(s)
                   PROVE  /\ matches[s][p].at <= clock
                          /\ lastSent[s] # None => matches[s][p].at > lastSent[s]
        OBVIOUS
      <4>1. p \in PostingIds /\ matches[s][p] # None /\ matches[s][p].at > Cutoff(s)
        BY DEF NewMatches, Typed, FeedGood, FeedTypeOK
      <4> QED
        BY <4>1 DEF Cutoff, Stamped
    <3>4. \A t \in Searches : mailer'.built[t] = IF t = s THEN new ELSE mailer.built[t]
      BY <3>1, <3>2 DEF MailerRow
    <3>5. UNCHANGED <<lastSent, digests, clock>>
      BY <2>3 DEF BuildDigest
    <3> HIDE DEF new
    <3> QED
      BY <3>1, <3>2, <3>3, <3>4, <3>5 DEF Marked, DigestsRepeatAtMostOnce
  <2>4. CASE SendDigests
    BY <2>4, MailedOnce
  <2>5. CASE DigestFails
    BY <2>5 DEF DigestFails, Marked, DigestsRepeatAtMostOnce
  <2>6. CASE FeedByWorker \/ FeedByRequest
    BY <2>1, <2>6 DEF FeedByWorker, FeedByRequest, FollowFeed, digestVars
  <2>7. ASSUME NEW r \in Refreshers, RefreshStep(r) PROVE Marked'
    <3>1. clock' \in Nat /\ clock' >= clock
      BY <2>7, RefreshKeepsTimes
    <3>2. UNCHANGED <<lastSent, digests, mailer>>
      BY <2>7, SessionMoves DEF digestVars
    <3> QED
      BY <3>1, <3>2, MarkedStays
  <2> QED
    BY <2>1, <2>2, <2>3, <2>4, <2>5, <2>6, <2>7
       DEF Next, vars, EditResume, CreateSearch, UpdateSearch, digestVars
<1> QED
  BY <1>1, <1>2, TypedInv, TimesInv, PTL DEF Spec

(* A digest shows again at most what the one before it has shown, however  *)
(* many requests refresh the search meanwhile (digest.py                   *)
(* send_daily_digests): a match is in two digests in a row at most.        *)
THEOREM DigestsMoveOn == Spec => []DigestsRepeatAtMostOnce
<1>1. Marked => DigestsRepeatAtMostOnce
  BY DEF Marked
<1> QED
  BY <1>1, DigestsInv, PTL
===============================================================================
