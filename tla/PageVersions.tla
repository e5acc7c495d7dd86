---------------------------- MODULE PageVersions ----------------------------
(***************************************************************************)
(* Pages of docs-service (services/docs-service/app), their versions, and  *)
(* the events that tell the other services.  The page, its version and the *)
(* event are written one after the other, and nothing makes the number of  *)
(* a version unique.                                                       *)
(*                                                                         *)
(* A parent page is looked up and stored, a space only looked up; neither  *)
(* changes what happens to versions, and both are left out.                *)
(***************************************************************************)
EXTENDS Integers, Sequences, FiniteSetsExt

CONSTANTS
  Requests,      \* concurrent HTTP calls
  MaxPage,       \* bound on page ids
  MaxVersion,    \* bound on version rows
  Contents,      \* title and content of a page
  NoRow

PageIds == 1..MaxPage

VARIABLES
  pages,         \* PageIds -> [content, is_active], or NoRow; rows are never deleted
  versions,      \* page_versions in row id order: [page_id, version_number, content]
  announced,     \* events the bus got: [event_name, page_id, content]
  call,          \* what each call is doing
  overlapped,    \* history: pages two calls wrote at a time
  unclear        \* history: pages whose last write failed or overlapped another

pageVars == <<pages, versions, announced, call, overlapped, unclear>>

Free == [op |-> "none", at |-> "idle", page |-> 0, content |-> NoRow, row |-> NoRow,
         version_number |-> 0, alone |-> TRUE]

Init ==
  /\ pages = [p \in PageIds |-> NoRow]
  /\ versions = <<>>
  /\ announced = {}
  /\ call = [r \in Requests |-> Free]
  /\ overlapped = {} /\ unclear = {}

-----------------------------------------------------------------------------
Numbers(p) == {versions[i].version_number : i \in {j \in DOMAIN versions : versions[j].page_id = p}}
VersionOf(p, n, c) == [page_id |-> p, version_number |-> n, content |-> c]
AtWork(p) == {r \in Requests : call[r].page = p /\ call[r].op # "delete"}

\* r starts op on page p; calls already writing p are no longer alone.
Start(r, op, at, p, c, row) ==
  LET others == AtWork(p) \ {r}
  IN /\ call' = [q \in Requests |->
                   IF q = r THEN [Free EXCEPT !.op = op, !.at = at, !.page = p, !.content = c,
                                              !.row = row, !.alone = (others = {})]
                   ELSE IF q \in others THEN [call[q] EXCEPT !.alone = FALSE] ELSE call[q]]
     /\ overlapped' = IF others = {} THEN overlapped ELSE overlapped \cup {p}
     /\ UNCHANGED unclear

GoTo(r, at) == call' = [call EXCEPT ![r].at = at]
Stop(r) == call' = [call EXCEPT ![r] = Free]

-----------------------------------------------------------------------------
CreatePage(r, c) ==
  \E p \in PageIds :
    /\ call[r] = Free /\ pages[p] = NoRow /\ \A q \in PageIds : q < p => pages[q] # NoRow
    /\ pages' = [pages EXCEPT ![p] = [content |-> c, is_active |-> TRUE]]
    /\ Start(r, "create", "refresh", p, c, NoRow)
    /\ UNCHANGED <<versions, announced>>

UpdateLoad(r, p, c) ==
  /\ call[r] = Free /\ pages[p] # NoRow /\ pages[p].is_active
  /\ Start(r, "update", "write", p, c, pages[p])
  /\ UNCHANGED <<pages, versions, announced>>

\* A content equal to the loaded one is not written and gets no version.
UpdateCommit(r) ==
  LET changed == call[r].content # call[r].row.content
  IN /\ call[r].at = "write"
     /\ pages' = IF changed THEN [pages EXCEPT ![call[r].page].content = call[r].content] ELSE pages
     /\ call' = [call EXCEPT ![r].at = IF changed THEN "refresh" ELSE "announce",
                             ![r].content = IF changed THEN @ ELSE NoRow]
     /\ UNCHANGED <<versions, announced, overlapped, unclear>>

\* Mutants of RefreshPage: the row read before the write is used, and the event
\* is sent without waiting for the version.
RefreshNothing(r) ==
  /\ call[r].at = "refresh"
  /\ call' = [call EXCEPT ![r].row = IF call[r].op = "create" THEN pages[call[r].page] ELSE @,
                          ![r].at = IF call[r].op = "create" THEN "version" ELSE "number",
                          ![r].version_number = 1]
  /\ UNCHANGED <<pages, versions, announced, overlapped, unclear>>
RefreshAndAnnounce(r) ==
  /\ call[r].at = "refresh"
  /\ call' = [call EXCEPT ![r].row = pages[call[r].page], ![r].at = "announce"]
  /\ UNCHANGED <<pages, versions, announced, overlapped, unclear>>

\* The row is read again: the version will hold what the page holds now.
RefreshPage(r) ==
  /\ call[r].at = "refresh"
  /\ call' = [call EXCEPT ![r].row = pages[call[r].page],
                          ![r].at = IF call[r].op = "create" THEN "version" ELSE "number",
                          ![r].version_number = 1]
  /\ UNCHANGED <<pages, versions, announced, overlapped, unclear>>

\* Mutant of next_version_number: the versions are counted from zero.
number_of_versions(r) ==
  /\ call[r].at = "number"
  /\ call' = [call EXCEPT ![r].at = "version", ![r].version_number = Cardinality(Numbers(call[r].page))]
  /\ UNCHANGED <<pages, versions, announced, overlapped, unclear>>

next_version_number(r) ==
  /\ call[r].at = "number"
  /\ call' = [call EXCEPT ![r].at = "version",
                          ![r].version_number = 1 + Max(Numbers(call[r].page) \cup {0})]
  /\ UNCHANGED <<pages, versions, announced, overlapped, unclear>>

create_version(r) ==
  LET p == call[r].page
  IN /\ call[r].at = "version" /\ Len(versions) < MaxVersion
     /\ versions' = Append(versions, VersionOf(p, call[r].version_number, call[r].row.content))
     /\ unclear' = IF call[r].alone THEN unclear \ {p} ELSE unclear \cup {p}
     /\ GoTo(r, "announce")
     /\ UNCHANGED <<pages, announced, overlapped>>

\* publish_event: the bus gets the event, or nobody notices that it does not.
publish_event(r) ==
  LET event == [event_name |-> call[r].op, page_id |-> call[r].page, content |-> call[r].content]
  IN /\ call[r].at = "announce"
     /\ \/ announced' = announced \cup {event}
        \/ UNCHANGED announced
     /\ Stop(r)
     /\ UNCHANGED <<pages, versions, overlapped, unclear>>

DeleteLoad(r, p) ==
  /\ call[r] = Free /\ pages[p] # NoRow /\ pages[p].is_active
  /\ call' = [call EXCEPT ![r] = [Free EXCEPT !.op = "delete", !.at = "hide", !.page = p]]
  /\ UNCHANGED <<pages, versions, announced, overlapped, unclear>>

DeleteCommit(r) ==
  /\ call[r].at = "hide"
  /\ pages' = [pages EXCEPT ![call[r].page].is_active = FALSE]
  /\ Stop(r)
  /\ UNCHANGED <<versions, announced, overlapped, unclear>>

\* The process stops or a database call fails: later steps never happen.
Fail(r) ==
  /\ call[r] # Free
  /\ unclear' = IF r \in AtWork(call[r].page) THEN unclear \cup {call[r].page} ELSE unclear
  /\ Stop(r)
  /\ UNCHANGED <<pages, versions, announced, overlapped>>

Next ==
  \E r \in Requests :
    \/ \E c \in Contents : CreatePage(r, c) \/ \E p \in PageIds : UpdateLoad(r, p, c)
    \/ UpdateCommit(r) \/ RefreshPage(r) \/ next_version_number(r) \/ create_version(r)
    \/ publish_event(r) \/ DeleteCommit(r) \/ Fail(r)
    \/ \E p \in PageIds : DeleteLoad(r, p)

Spec == Init /\ [][Next]_pageVars

-----------------------------------------------------------------------------
(* Properties                                                              *)

\* Versions of a page are numbered from 1 without a gap whatever overlaps or
\* fails, and without a number given twice if no two calls wrote the page at once.
VersionsNumbered ==
  \A p \in PageIds :
    /\ Numbers(p) = 1..Cardinality(Numbers(p))
    /\ p \notin overlapped =>
         Cardinality(Numbers(p)) = Cardinality({i \in DOMAIN versions : versions[i].page_id = p})

\* At rest, and unless its last write failed or overlapped another, a page is what
\* its version of the highest number says (README: "When page title or content
\* changes, Docs creates the next PageVersion").
LatestVersionIsPage ==
  \A p \in PageIds \ unclear :
    pages[p] # NoRow /\ AtWork(p) = {} =>
      \E i \in DOMAIN versions :
        versions[i] = VersionOf(p, Max(Numbers(p)), pages[p].content)

\* What the bus is told of is stored: an event that announces a new content comes
\* after a version of the page and, if nobody else wrote it meanwhile, after one
\* with that content.  The converse does not hold: events are lost.
AnnouncedIsStored ==
  \A e \in announced : e.content # NoRow =>
    \E i \in DOMAIN versions :
      /\ versions[i].page_id = e.page_id
      /\ e.page_id \notin overlapped => versions[i].content = e.content
=============================================================================
