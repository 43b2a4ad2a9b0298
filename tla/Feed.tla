-------------------------------- MODULE Feed --------------------------------
(***************************************************************************)
(* What the ingestion pipeline promises the rest of the backend about the  *)
(* table postings: rows of a board come and go with the board, one fetch   *)
(* is applied as a whole, rows expire without being deleted, and a row is  *)
(* linked to another stored row at most once.                              *)
(*                                                                         *)
(* Postings implements this specification; Matching is built on it, so     *)
(* that scoring is checked against every feed the pipeline may produce.    *)
(***************************************************************************)

CONSTANTS
    Boards,      \* source_boards.id
    PostingIds,  \* (source_board_id, external_id) pairs
    Home,        \* the board of each posting
    Contents,    \* what title and description may say
    None         \* SQL NULL

ASSUME FeedAssumption ==
    /\ Home \in [PostingIds -> Boards]
    /\ None \notin PostingIds \cup Contents

VARIABLES
    registered, \* Boards -> "new", "watched" or "deleted"
    stored,     \* the rows of postings
    active,     \* rows with is_active
    content,    \* what a row says, and so its content_hash
    canon       \* canonical_posting_id

feedVars == <<registered, stored, active, content, canon>>

Of(b) == {p \in PostingIds : Home[p] = b}

FeedTypeOK ==
    /\ registered \in [Boards -> {"new", "watched", "deleted"}]
    /\ stored \subseteq PostingIds
    /\ active \subseteq stored
    /\ content \in [PostingIds -> Contents \cup {None}]
    /\ canon \in [PostingIds -> PostingIds \cup {None}]

FeedInit ==
    /\ registered = [b \in Boards |-> "new"]
    /\ stored = {} /\ active = {}
    /\ content = [p \in PostingIds |-> None]
    /\ canon = [p \in PostingIds |-> None]

(* A user registers a board. *)
Register(b) ==
    /\ registered[b] = "new"
    /\ registered' = [registered EXCEPT ![b] = "watched"]
    /\ UNCHANGED <<stored, active, content, canon>>

(* A user deletes a board: its rows, and the links to them, go with it. *)
Remove(b) ==
    /\ registered[b] = "watched"
    /\ registered' = [registered EXCEPT ![b] = "deleted"]
    /\ stored' = stored \ Of(b)
    /\ active' = active \ Of(b)
    /\ content' = [p \in PostingIds |-> IF p \in Of(b) THEN None ELSE content[p]]
    /\ canon' = [p \in PostingIds |->
                   IF p \in Of(b) \/ canon[p] \in Of(b) THEN None ELSE canon[p]]

(* One fetch of board b is applied: exactly the postings it lists are open *)
(* on the board, and they say what the fetch says.                         *)
Apply(b, seen, says) ==
    /\ registered[b] = "watched"
    /\ stored' = stored \cup seen
    /\ active' = (active \ Of(b)) \cup seen
    /\ content' = [p \in PostingIds |-> IF p \in seen THEN says[p] ELSE content[p]]
    /\ UNCHANGED <<registered, canon>>

(* Rows of one board that had no link get one. *)
Link(b, targets) ==
    /\ \A p \in PostingIds :
         targets[p] # None =>
             /\ p \in Of(b) \cap stored
             /\ canon[p] = None
             /\ targets[p] \in stored \ {p}
    /\ canon' = [p \in PostingIds |-> IF targets[p] # None THEN targets[p] ELSE canon[p]]
    /\ UNCHANGED <<registered, stored, active, content>>

(* Rows go stale and leave the feed. *)
Expire(stale) ==
    /\ active' = active \ stale
    /\ UNCHANGED <<registered, stored, content, canon>>

Says == [PostingIds -> Contents]
Targets == [PostingIds -> PostingIds \cup {None}]

FeedNext ==
    \/ \E b \in Boards :
         \/ Register(b)
         \/ Remove(b)
         \/ \E seen \in SUBSET Of(b), says \in Says : Apply(b, seen, says)
         \/ \E targets \in Targets : Link(b, targets)
    \/ \E stale \in SUBSET active : Expire(stale)

FeedSpec == FeedInit /\ [][FeedNext]_feedVars

=============================================================================
