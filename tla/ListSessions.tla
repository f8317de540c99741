---------------------------- MODULE ListSessions ----------------------------
(***************************************************************************)
(* ListSessions of pkg/store/cayley and of the management service, and a   *)
(* client that asks for page after page while sessions are created.        *)
(*                                                                         *)
(* Every call lists the members, reads each session, sorts by timestamp,   *)
(* and cuts the page behind the session the cursor names.  A session's     *)
(* timestamp is the clock of the harness that created it: sessions can tie *)
(* and can arrive late.  The sort is not stable and the members come in no *)
(* particular order, so equal timestamps may change places between calls.  *)
(***************************************************************************)
EXTENDS Naturals, FiniteSets, SequencesExt

CONSTANTS
  SessionID, Time,
  NoToken,        \* the empty page token
  Limit,          \* values of the limit field, zero among them
  defaultLimit,   \* 50 in the code
  MaxPages,       \* bound: calls of the client, more than there are sessions
  MaxFailures     \* bound: sessions that a listing cannot read

ASSUME ListAssumption ==
  /\ NoToken \notin SessionID
  /\ Time \subseteq Nat /\ Limit \subseteq Nat
  /\ defaultLimit \in Nat \ {0}
  /\ MaxPages \in Nat /\ MaxPages > Cardinality(SessionID)
  /\ MaxFailures \in Nat

VARIABLES
  stamp,      \* session -> the timestamp it is created with
  members,    \* the sessions of the store
  pager,      \* the client: token and limit of its next call
  pages,      \* what it was given so far
  first,      \* history: the members when it began
  lost        \* history: sessions some call left out because a query failed

listVars == <<stamp, members, pager, pages, first, lost>>

ListInit ==
  /\ stamp \in [SessionID -> Time]
  /\ members = {}
  /\ pager = [pc |-> "idle"]
  /\ pages = << >>
  /\ first = {}
  /\ lost = {}

-----------------------------------------------------------------------------

NewSession(s) ==
  /\ s \notin members
  /\ members' = members \cup {s}
  /\ UNCHANGED <<stamp, pager, pages, first, lost>>

\* sort.Slice by Timestamp.Before: the orders it can leave the sessions in.
sortedByTimestamp(found) ==
  {q \in SetToSeqs(found) :
     \A i, j \in 1..Cardinality(found) : i < j => stamp[q[i]] <= stamp[q[j]]}

\* Mutant: the page begins with the cursor.
fromCursor(sessions, cursor) ==
  IF cursor \in ToSet(sessions)
  THEN SubSeq(sessions, CHOOSE i \in DOMAIN sessions : sessions[i] = cursor, Len(sessions))
  ELSE sessions

\* The sessions behind the cursor; all of them when it is not found.
afterCursor(sessions, cursor) ==
  IF cursor \in ToSet(sessions)
  THEN SubSeq(sessions, 1 + CHOOSE i \in DOMAIN sessions : sessions[i] = cursor,
              Len(sessions))
  ELSE sessions

\* Mutant: the token is the first session of the next page.
cutToNext(rest, limit) ==
  IF Len(rest) > limit THEN [page |-> SubSeq(rest, 1, limit), next |-> rest[limit + 1]]
  ELSE [page |-> rest, next |-> NoToken]

\* The page and its token: the last session of the page, if more follow.
cut(rest, limit) ==
  IF Len(rest) > limit THEN [page |-> SubSeq(rest, 1, limit), next |-> rest[limit]]
  ELSE [page |-> rest, next |-> NoToken]

\* The results of one call over the sessions it could read.
listing(found, cursor, limit) ==
  {cut(afterCursor(q, cursor), IF limit = 0 THEN defaultLimit ELSE limit) :
     q \in sortedByTimestamp(found)}

Begin(limit) ==
  /\ pager.pc = "idle"
  /\ pager' = [pc |-> "call", token |-> NoToken, limit |-> limit]
  /\ first' = members
  /\ UNCHANGED <<stamp, members, pages, lost>>

\* One call.  A session whose query fails is skipped without a word, so a call
\* may miss some.  The client calls again for as long as it gets a token.
ListSessions(missed) ==
  /\ pager.pc = "call"
  /\ missed \subseteq members
  /\ lost' = lost \cup missed
  /\ Cardinality(lost') <= MaxFailures
  /\ \E r \in listing(members \ missed, pager.token, pager.limit) :
       /\ pages' = Append(pages, r.page)
       /\ pager' = IF r.next = NoToken THEN [pc |-> "done", limit |-> pager.limit]
                   ELSE [pager EXCEPT !.token = r.next]
  /\ Len(pages) < MaxPages
  /\ UNCHANGED <<stamp, members, first>>

\* The members themselves cannot be listed: the call fails, the client stops.
ListSessionsFails ==
  /\ pager.pc = "call"
  /\ pager' = [pc |-> "failed", limit |-> pager.limit]
  /\ UNCHANGED <<stamp, members, pages, first, lost>>

ListNext ==
  \/ \E s \in SessionID : NewSession(s)
  \/ \E limit \in Limit : Begin(limit)
  \/ \E missed \in SUBSET members : ListSessions(missed)
  \/ ListSessionsFails

ListSpec == ListInit /\ [][ListNext]_listVars

-----------------------------------------------------------------------------
(* Properties *)

listed == FlattenSeq(pages)

\* Another session has the timestamp of s.
tied(s) == \E t \in SessionID \ {s} : stamp[t] = stamp[s]

\* Type correctness; no page is longer than its limit.
ListTypeOK ==
  /\ stamp \in [SessionID -> Time]
  /\ members \subseteq SessionID /\ first \subseteq members
  /\ pager \in [pc : {"idle"}] \cup [pc : {"done", "failed"}, limit : Limit]
       \cup [pc : {"call"}, token : SessionID \cup {NoToken}, limit : Limit]
  /\ pages \in Seq(Seq(members))
  /\ \A i \in DOMAIN pages :
       Len(pages[i]) <= IF pager.limit = 0 THEN defaultLimit ELSE pager.limit
  /\ lost \subseteq members /\ Cardinality(lost) <= MaxFailures

\* Paging to the end shows every session that was there at its start, whatever
\* is created meanwhile, early or late by its clock, and even when a failed query
\* hides the cursor: only a session that could not be read itself, or that
\* shares its timestamp with another, can be missing.
NoneSkipped ==
  pager.pc = "done" =>
    \A s \in first : s \in ToSet(listed) \cup lost \/ tied(s)

\* Over all its pages, a listing goes forward in time and repeats no session,
\* except among sessions with one timestamp, or after a failed query hid the
\* cursor and the listing began again; and a call that gives a token gives a
\* session, so that a listing comes to its end.
PagesGoForward ==
  /\ lost = {} =>
       \A i, j \in DOMAIN listed : i < j =>
         \/ stamp[listed[i]] < stamp[listed[j]]
         \/ stamp[listed[i]] = stamp[listed[j]] /\ tied(listed[i])
  /\ pager.pc = "call" => \A i \in DOMAIN pages : pages[i] # << >>

\* A listing over several pages is complete and in order, as far as ties and
\* failed reads allow, and its pages keep to their limit.
ListingInv == ListTypeOK /\ NoneSkipped /\ PagesGoForward

=============================================================================
