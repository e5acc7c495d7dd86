--------------------------- MODULE DocumentProofs ---------------------------
(* What TLAPS proves of PageVersions and KnowledgeMemory: what versions and   *)
(* chunks say of a page or a document, for any number of them and of calls.   *)
EXTENDS Services, FiniteSetTheorems, WellFoundedInduction, TLAPS

-----------------------------------------------------------------------------
(* Numbers                                                                 *)

\* A set of numbers below a bound has a largest one.
LEMMA HasMax ==
  ASSUME NEW n \in Nat, NEW S, S \subseteq 0..n, S # {}
  PROVE  \E x \in S : \A y \in S : x >= y
<1> DEFINE T == {n - x : x \in S}
<1>1. T \subseteq Nat
  OBVIOUS
<1> HIDE DEF T
<1>0. T # {}
  <2>1. PICK x \in S : TRUE
    OBVIOUS
  <2>2. n - x \in T
    BY DEF T
  <2> QED BY <2>2
<1>2. \E t \in T : \A u \in T : ~ (<<u, t>> \in OpToRel(<, Nat))
  BY <1>0, <1>1, NatLessThanWellFounded, WFMin
<1>3. PICK t \in T : \A u \in T : ~ (u < t)
  BY <1>1, <1>2 DEF OpToRel
<1>4. PICK x \in S : t = n - x
  BY <1>3 DEF T
<1>5. ASSUME NEW y \in S PROVE x >= y
  <2>1. ~ (n - y < t)
    BY <1>3 DEF T
  <2> QED BY <2>1, <1>4
<1> QED BY <1>4, <1>5

\* The library's Max of the numbers from 1 to n, and of those and zero.
LEMMA MaxOfInterval ==
  ASSUME NEW n \in Nat
  PROVE  /\ Docs!Max((1..n) \cup {0}) = n
         /\ n # 0 => Docs!Max(1..n) = n
<1>1. n \in (1..n) \cup {0} /\ \A y \in (1..n) \cup {0} : n >= y
  OBVIOUS
<1>2. Docs!Max((1..n) \cup {0}) = n
  BY <1>1 DEF Docs!Max
<1>3. n # 0 => Docs!Max(1..n) = n
  BY DEF Docs!Max
<1> QED BY <1>2, <1>3

LEMMA SameCardinality == \A S : Docs!Cardinality(S) = Cardinality(S)
BY DEF Docs!Cardinality, Cardinality

-----------------------------------------------------------------------------
(* Versions of a page                                                      *)

pages == s1
versions == s2
announced == s3
call == s4
overlapped == s5
unclear == s6
USE DEF pages, versions, announced, call, overlapped, unclear

PageIds == 1..MaxPage
PageRows == [content : Contents, is_active : BOOLEAN]
VersionRows == [page_id : PageIds, version_number : Nat \ {0}, content : Contents]
Pending == {"refresh", "number", "version"}
Writing == {"write", "announce"} \cup Pending
Calls == [op : {"none", "create", "update", "delete"}, at : {"idle", "hide"} \cup Writing,
          page : PageIds \cup {0}, content : Contents \cup {NULL}, row : PageRows \cup {NULL},
          version_number : Nat, alone : BOOLEAN]

Rows(p, vs) == {i \in DOMAIN vs : vs[i].page_id = p}
Nums(p, vs) == {vs[i].version_number : i \in Rows(p, vs)}

\* What a call may be doing, given the pages, the versions and the overlapped pages.
Sound(c, ps, vs, ov) ==
  /\ c \in Calls
  /\ c.at = "idle" => c.op = "none" /\ c.page = 0
  /\ c.at \in Writing => c.op \in {"create", "update"} /\ c.page \in PageIds /\ ps[c.page] # NULL
  /\ c.at = "hide" => c.op = "delete" /\ c.page \in PageIds /\ ps[c.page] # NULL
  /\ c.at \in Pending \cup {"write"} => c.content \in Contents
  /\ c.at \in {"write", "number", "version"} => c.row \in PageRows
  /\ c.at \in {"write", "number"} => c.op = "update"
  /\ c.at = "version" => \/ c.version_number = 1
                         \/ c.version_number > 1 /\ c.version_number - 1 \in Nums(c.page, vs)
  /\ c.at = "announce" /\ c.content # NULL =>
       \E i \in Rows(c.page, vs) : c.page \notin ov => vs[i].content = c.content

\* What a call knows that is alone with its page.
Alone(c, ps, vs) ==
  /\ c.at \in Pending => ps[c.page].content = c.content
  /\ c.at \in {"number", "version"} => c.row.content = c.content
  /\ c.op = "create" /\ c.at \in Pending => Nums(c.page, vs) = {}
  /\ c.at = "version" => \A n \in Nums(c.page, vs) : n < c.version_number

Numbered(p, vs, ov) ==
  /\ \E n \in Nat : Nums(p, vs) = 1..n
  /\ p \notin ov =>
       \A i, j \in Rows(p, vs) : vs[i].version_number = vs[j].version_number => i = j

\* A version of the highest number holds what the page holds.
Told(p, ps, vs) ==
  \E i \in Rows(p, vs) : /\ vs[i].content = ps[p].content
                         /\ \A n \in Nums(p, vs) : n <= vs[i].version_number

PageType ==
  /\ pages \in [PageIds -> PageRows \cup {NULL}]
  /\ versions \in Seq(VersionRows)
  /\ call \in [Requests -> Calls]
  /\ overlapped \subseteq PageIds

CallsSound ==
  \A r \in Requests :
    /\ Sound(call[r], pages, versions, overlapped)
    /\ call[r].at \in Writing /\ call[r].alone =>
         /\ Alone(call[r], pages, versions)
         /\ \A q \in Requests \ {r} : call[q].at \in Writing => call[q].page # call[r].page
    /\ call[r].at \in Writing /\ call[r].page \notin overlapped => call[r].alone

PagesSound ==
  \A p \in PageIds :
    /\ Numbered(p, versions, overlapped)
    /\ pages[p] = NULL => Rows(p, versions) = {} /\ p \notin overlapped
    /\ \/ p \in unclear \/ pages[p] = NULL \/ Told(p, pages, versions)
       \/ \E r \in Requests : call[r].page = p /\ call[r].at \in Pending

Announced ==
  \A e \in announced : e.content # NULL =>
    \E i \in DOMAIN versions : /\ versions[i].page_id = e.page_id
                               /\ e.page_id \notin overlapped => versions[i].content = e.content

PageInv == PageType /\ CallsSound /\ PagesSound /\ Announced

LEMMA DocsStep ==
  ASSUME [Next]_vars, part' = "docs"
  PROVE  /\ part = "docs"
         /\ Docs!Next \/ UNCHANGED <<s1, s2, s3, s4, s5, s6>>
BY DEF Next, vars

LEMMA NumbersAreNums == \A p : Docs!Numbers(p) = Nums(p, versions)
BY DEF Docs!Numbers, Nums, Rows

LEMMA PageRowIsNotNull == NULL \notin PageRows
BY NullAssumption DEF PageRows

LEMMA FreeSound ==
  \A ps, vs, ov : Sound(Docs!Free, ps, vs, ov) /\ Docs!Free.at = "idle" /\ Docs!Free.page = 0
BY DEF Docs!Free, Sound, Calls, Writing, Pending

LEMMA PageInit == Docs!Init => PageInv
<1> SUFFICES ASSUME Docs!Init PROVE PageInv
  OBVIOUS
<1>1. /\ pages = [p \in PageIds |-> NULL] /\ versions = <<>> /\ announced = {} /\ overlapped = {}
      /\ unclear = {} /\ call = [r \in Requests |-> Docs!Free]
  BY DEF Docs!Init, Docs!PageIds, PageIds
<1>2. PageType
  BY <1>1, FreeSound DEF PageType, Sound
<1>3. CallsSound
  BY <1>1, FreeSound DEF CallsSound, Writing, Pending
<1>4. ASSUME NEW p \in PageIds PROVE Rows(p, versions) = {} /\ Nums(p, versions) = 1..0
  BY <1>1 DEF Rows, Nums
<1>5. PagesSound
  BY <1>1, <1>4 DEF PagesSound, Numbered
<1> QED BY <1>1, <1>2, <1>3, <1>5 DEF PageInv, Announced

\* Another version of a page.
LEMMA OneMoreVersion ==
  ASSUME NEW vs \in Seq(VersionRows), NEW v \in VersionRows, NEW p
  PROVE  LET ws == Append(vs, v)
             n == Len(vs) + 1
         IN /\ ws \in Seq(VersionRows) /\ ws[n] = v
            /\ \A i \in DOMAIN vs : i # n /\ i \in DOMAIN ws /\ ws[i] = vs[i]
            /\ Rows(p, ws) = Rows(p, vs) \cup (IF v.page_id = p THEN {n} ELSE {})
            /\ Nums(p, ws) = Nums(p, vs) \cup (IF v.page_id = p THEN {v.version_number} ELSE {})
<1> DEFINE ws == Append(vs, v)
           n == Len(vs) + 1
<1>1. ws \in Seq(VersionRows) /\ ws[n] = v /\ DOMAIN ws = 1..n /\ DOMAIN vs = 1..(n - 1) /\ n \in Nat \ {0}
      /\ \A i \in DOMAIN vs : ws[i] = vs[i]
  OBVIOUS
<1> HIDE DEF ws, n
<1>2. \A i \in DOMAIN vs : i # n /\ i \in DOMAIN ws
  BY <1>1
<1>3. Rows(p, ws) = Rows(p, vs) \cup (IF v.page_id = p THEN {n} ELSE {})
  BY <1>1, <1>2 DEF Rows
<1>4. Nums(p, ws) = Nums(p, vs) \cup (IF v.page_id = p THEN {v.version_number} ELSE {})
  <2>1. ASSUME NEW k \in Nums(p, vs) PROVE k \in Nums(p, ws)
    BY <1>1, <1>2, <1>3 DEF Nums, Rows
  <2>2. ASSUME v.page_id = p PROVE v.version_number \in Nums(p, ws)
    BY <1>1, <1>3, <2>2 DEF Nums
  <2>3. ASSUME NEW k \in Nums(p, ws)
        PROVE  k \in Nums(p, vs) \cup (IF v.page_id = p THEN {v.version_number} ELSE {})
    <3>1. PICK i \in Rows(p, ws) : k = ws[i].version_number
      BY <2>3 DEF Nums
    <3>2. CASE i = n
      BY <1>1, <3>1, <3>2 DEF Rows
    <3>3. CASE i # n
      BY <1>1, <1>3, <3>1, <3>3 DEF Nums, Rows
    <3> QED BY <3>2, <3>3
  <2> QED BY <2>1, <2>2, <2>3
<1> QED BY <1>1, <1>2, <1>3, <1>4 DEF ws, n

\* A call goes on, or back to rest: it writes no version and starts no writing, and
\* what pages hold stays.
LEMMA CallGoesOn ==
  ASSUME PageInv, NEW r \in Requests, NEW c, call' = [call EXCEPT ![r] = c],
         pages' \in [PageIds -> PageRows \cup {NULL}],
         \A p \in PageIds : /\ pages[p] = NULL <=> pages'[p] = NULL
                            /\ pages'[p].content = pages[p].content,
         versions' = versions, overlapped' = overlapped,
         Sound(c, pages', versions, overlapped),
         c.at \in Writing => /\ call[r].at \in Writing /\ c.page = call[r].page /\ c.alone = call[r].alone
                             /\ c.alone => Alone(c, pages', versions),
         unclear \subseteq unclear',
         call[r].at \in Pending /\ c.at \notin Pending => call[r].page \in unclear',
         Announced'
  PROVE  PageInv'
<1>1. PageType'
  BY DEF PageInv, PageType, Sound
<1>2. ASSUME NEW q \in Requests, q # r
      PROVE  /\ call'[q] = call[q]
             /\ Sound(call'[q], pages', versions', overlapped')
             /\ call[q].at \in Writing /\ call[q].alone => Alone(call'[q], pages', versions')
  <2>1. call'[q] = call[q]
    BY <1>2 DEF PageInv, PageType
  <2>2. Sound(call[q], pages', versions, overlapped)
    BY DEF PageInv, CallsSound, Sound
  <2>3. ASSUME call[q].at \in Writing, call[q].alone PROVE Alone(call[q], pages', versions)
    BY <2>3 DEF PageInv, CallsSound, Alone, Sound, Pending, Writing
  <2> QED BY <2>1, <2>2, <2>3
<1>3. call'[r] = c
  BY DEF PageInv, PageType
<1>4. CallsSound'
  BY <1>2, <1>3 DEF PageInv, CallsSound
<1>5. PagesSound'
  <2> SUFFICES ASSUME NEW p \in PageIds
               PROVE  /\ Numbered(p, versions', overlapped')
                      /\ pages'[p] = NULL => Rows(p, versions') = {} /\ p \notin overlapped'
                      /\ \/ p \in unclear' \/ pages'[p] = NULL \/ Told(p, pages', versions')
                         \/ \E q \in Requests : call'[q].page = p /\ call'[q].at \in Pending
    BY DEF PagesSound
  <2>1. ASSUME NEW q \in Requests, call[q].page = p, call[q].at \in Pending
        PROVE  p \in unclear' \/ (call'[q].page = p /\ call'[q].at \in Pending)
    BY <1>2, <1>3, <2>1 DEF Writing
  <2>2. Told(p, pages, versions) => Told(p, pages', versions')
    BY DEF Told
  <2> QED BY <2>1, <2>2 DEF PageInv, PagesSound
<1> QED BY <1>1, <1>4, <1>5 DEF PageInv

\* A call begins to write a page.
LEMMA CallStarts ==
  ASSUME PageInv, NEW r \in Requests, call[r] = Docs!Free,
         NEW op \in {"create", "update"}, NEW at \in {"refresh", "write"}, NEW p \in PageIds,
         NEW text \in Contents, NEW row \in PageRows \cup {NULL},
         Docs!Start(r, op, at, p, text, row),
         versions' = versions, announced' = announced,
         \/ /\ op = "update" /\ at = "write" /\ row \in PageRows
            /\ pages' = pages /\ pages[p] # NULL
         \/ /\ op = "create" /\ at = "refresh" /\ pages[p] = NULL
            /\ pages' = [pages EXCEPT ![p] = [content |-> text, is_active |-> TRUE]]
  PROVE  PageInv'
<1> DEFINE others == Docs!AtWork(p) \ {r}
<1>1. /\ others = {q \in Requests \ {r} : call[q].page = p /\ call[q].at \in Writing}
  <2>1. ASSUME NEW q \in Requests
        PROVE  call[q].page = p /\ call[q].op # "delete" <=> call[q].page = p /\ call[q].at \in Writing
    <3>1. Sound(call[q], pages, versions, overlapped)
      BY DEF PageInv, CallsSound
    <3> QED BY <3>1 DEF Sound, Calls, PageIds
  <2> QED BY <2>1 DEF Docs!AtWork
<1>2. /\ call' = [q \in Requests |->
                    IF q = r THEN [Docs!Free EXCEPT !.op = op, !.at = at, !.page = p, !.content = text,
                                               !.row = row, !.alone = (others = {})]
                    ELSE IF q \in others THEN [call[q] EXCEPT !.alone = FALSE] ELSE call[q]]
      /\ overlapped' = IF others = {} THEN overlapped ELSE overlapped \cup {p}
      /\ unclear' = unclear
  BY DEF Docs!Start
<1> HIDE DEF others
<1>3. /\ call'[r] \in Calls /\ call'[r].op = op /\ call'[r].at = at /\ call'[r].page = p
      /\ call'[r].content = text /\ call'[r].row = row /\ (call'[r].alone <=> others = {})
  BY <1>2 DEF Docs!Free, Calls, Writing, Pending
<1>4. ASSUME NEW q \in others
      PROVE  /\ call'[q] \in Calls /\ call'[q].op = call[q].op /\ call'[q].at = call[q].at
             /\ call'[q].page = call[q].page /\ call'[q].content = call[q].content
             /\ call'[q].row = call[q].row /\ call'[q].version_number = call[q].version_number
             /\ ~ call'[q].alone
  <2>1. q \in Requests /\ q # r /\ call[q] \in Calls
    BY <1>1 DEF PageInv, PageType
  <2>2. call'[q] = [call[q] EXCEPT !.alone = FALSE]
    BY <1>2, <2>1
  <2> QED BY <2>1, <2>2 DEF Calls
<1>5. ASSUME NEW q \in Requests, q # r, q \notin others
      PROVE  call'[q] = call[q]
  BY <1>2, <1>5
<1>6. /\ pages' \in [PageIds -> PageRows \cup {NULL}] /\ pages'[p] # NULL
      /\ \A d \in PageIds : d # p => pages'[d] = pages[d]
      /\ at = "write" => pages' = pages
      /\ at = "refresh" => pages'[p].content = text /\ pages[p] = NULL
  <2>1. [content |-> text, is_active |-> TRUE] \in PageRows
    BY DEF PageRows
  <2>2. CASE at = "write"
    BY <2>2 DEF PageInv, PageType
  <2>3. CASE at = "refresh"
    <3> DEFINE new == [content |-> text, is_active |-> TRUE]
    <3>1. new \in PageRows /\ new # NULL /\ new.content = text
      BY <2>1, PageRowIsNotNull
    <3>2. pages' = [pages EXCEPT ![p] = new] /\ pages[p] = NULL
      BY <2>3
    <3> HIDE DEF new
    <3> QED BY <2>3, <3>1, <3>2 DEF PageInv, PageType
  <2> QED BY <2>2, <2>3
<1>7. PageType'
  <2>1. ASSUME NEW q \in Requests PROVE call'[q] \in Calls
    BY <1>3, <1>4, <1>5 DEF PageInv, PageType
  <2>2. call' \in [Requests -> Calls]
    <3>1. DOMAIN call' = Requests /\ call' = [q \in Requests |-> call'[q]]
      BY <1>2
    <3> QED BY <2>1, <3>1
  <2> QED BY <1>2, <1>6, <2>2 DEF PageInv, PageType
<1>8. at = "refresh" => others = {} /\ Rows(p, versions) = {}
  BY <1>1 DEF PageInv, CallsSound, PagesSound, Sound
<1>9. CallsSound'
  <2>1. Sound(call'[r], pages', versions', overlapped')
    BY <1>3, <1>6 DEF Sound, Writing, Pending
  <2>2. call'[r].alone => Alone(call'[r], pages', versions')
    BY <1>3, <1>6, <1>8 DEF Alone, Pending, Nums
  <2>3. ASSUME NEW q \in others PROVE Sound(call'[q], pages', versions', overlapped')
    <3>1. q \in Requests /\ Sound(call[q], pages, versions, overlapped) /\ overlapped \subseteq overlapped'
      BY <1>1, <1>2 DEF PageInv, CallsSound
    <3>2. \A d \in PageIds : pages[d] # NULL => pages'[d] # NULL
      BY <1>6
    <3> QED BY <1>4, <3>1, <3>2 DEF Sound
  <2>4. ASSUME NEW q \in Requests, q # r, q \notin others
        PROVE  /\ Sound(call[q], pages', versions', overlapped')
               /\ call[q].at \in Writing =>
                     /\ call[q].page # p
                     /\ call[q].alone => Alone(call[q], pages', versions')
    <3>1. Sound(call[q], pages, versions, overlapped) /\ overlapped \subseteq overlapped'
      BY <1>2, <2>4 DEF PageInv, CallsSound
    <3>2. \A d \in PageIds : pages[d] # NULL => pages'[d] # NULL
      BY <1>6
    <3>3. Sound(call[q], pages', versions', overlapped')
      BY <3>1, <3>2 DEF Sound
    <3>4. call[q].at \in Writing => call[q].page # p /\ call[q].page \in PageIds
      BY <1>1, <2>4, <3>1 DEF Sound
    <3>5. call[q].at \in Writing /\ call[q].alone => Alone(call[q], pages', versions')
      BY <1>6, <3>4, <2>4 DEF PageInv, CallsSound, Alone, Pending, Writing
    <3> QED BY <3>3, <3>4, <3>5
  <2>5. ASSUME NEW q \in Requests, call'[q].at \in Writing, call'[q].alone, NEW t \in Requests \ {q},
               call'[t].at \in Writing
        PROVE  call'[t].page # call'[q].page
    BY <1>3, <1>4, <1>5, <2>4, <2>5, <1>1 DEF PageInv, CallsSound
  <2>6. ASSUME NEW q \in Requests, call'[q].at \in Writing, call'[q].page \notin overlapped'
        PROVE  call'[q].alone
    <3>1. CASE q = r
      <4>1. p \notin overlapped'
        BY <1>3, <2>6, <3>1
      <4>2. others = {}
        BY <1>2, <4>1
      <4> QED BY <1>3, <3>1, <4>2
    <3>2. CASE q \in others
      <4>1. call'[q].page = p
        BY <1>1, <1>4, <3>2
      <4>2. p \in overlapped'
        BY <1>2, <3>2
      <4> QED BY <2>6, <4>1, <4>2
    <3>3. CASE q # r /\ q \notin others
      BY <1>2, <1>5, <2>6, <3>3 DEF PageInv, CallsSound
    <3> QED BY <3>1, <3>2, <3>3
  <2> QED BY <1>3, <1>4, <1>5, <2>1, <2>2, <2>3, <2>4, <2>5, <2>6 DEF CallsSound
<1>10. PagesSound'
  <2> SUFFICES ASSUME NEW d \in PageIds
               PROVE  /\ Numbered(d, versions', overlapped')
                      /\ pages'[d] = NULL => Rows(d, versions') = {} /\ d \notin overlapped'
                      /\ \/ d \in unclear' \/ pages'[d] = NULL \/ Told(d, pages', versions')
                         \/ \E q \in Requests : call'[q].page = d /\ call'[q].at \in Pending
    BY DEF PagesSound
  <2>1. Numbered(d, versions', overlapped')
    BY <1>2 DEF PageInv, PagesSound, Numbered
  <2>2. ASSUME pages'[d] = NULL PROVE Rows(d, versions') = {} /\ d \notin overlapped'
    BY <1>2, <1>6, <2>2 DEF PageInv, PagesSound
  <2>3. ASSUME NEW q \in Requests, call[q].page = d, call[q].at \in Pending
        PROVE  call'[q].page = d /\ call'[q].at \in Pending
    <3>1. q # r
      BY <2>3, FreeSound DEF Pending
    <3> QED BY <1>4, <1>5, <2>3, <3>1
  <2>4. ASSUME Told(d, pages, versions), d # p \/ at = "write" PROVE Told(d, pages', versions')
    BY <1>6, <2>4 DEF Told
  <2>5. CASE d = p /\ at = "refresh"
    BY <1>3, <2>1, <2>2, <2>5 DEF Pending
  <2>6. CASE d # p \/ at = "write"
    <3>1. \/ d \in unclear \/ pages[d] = NULL \/ Told(d, pages, versions)
          \/ \E q \in Requests : call[q].page = d /\ call[q].at \in Pending
      BY DEF PageInv, PagesSound
    <3>2. pages[d] = NULL => pages'[d] = NULL
      BY <1>6, <2>6
    <3> QED BY <1>2, <2>1, <2>2, <2>3, <2>4, <2>6, <3>1, <3>2
  <2> QED BY <2>5, <2>6
<1>11. Announced'
  BY <1>2 DEF PageInv, Announced
<1> QED BY <1>7, <1>9, <1>10, <1>11 DEF PageInv
\* A call writes a version of its page.
LEMMA VersionIsWritten ==
  ASSUME PageInv, NEW r \in Requests, Docs!create_version(r)
  PROVE  PageInv'
<1> DEFINE p == call[r].page
           v == Docs!VersionOf(p, call[r].version_number, call[r].row.content)
           n == Len(versions) + 1
           c == [call[r] EXCEPT !.at = "announce"]
<1>1. /\ call[r].at = "version" /\ versions' = Append(versions, v)
      /\ unclear' = IF call[r].alone THEN unclear \ {p} ELSE unclear \cup {p}
      /\ call' = [call EXCEPT ![r] = c]
      /\ pages' = pages /\ announced' = announced /\ overlapped' = overlapped
  BY DEF Docs!create_version, Docs!GoTo
<1>2. Sound(call[r], pages, versions, overlapped) /\ call[r] \in Calls
  BY DEF PageInv, CallsSound, PageType
<1>3. p \in PageIds /\ pages[p] # NULL /\ call[r].row \in PageRows /\ call[r].content \in Contents
  BY <1>1, <1>2 DEF Sound, Writing, Pending
<1>4. call[r].version_number \in Nat \ {0} /\ versions \in Seq(VersionRows)
  BY <1>1, <1>2 DEF Sound, Calls, PageInv, PageType
<1>5. /\ v \in VersionRows /\ v.page_id = p /\ v.version_number = call[r].version_number
      /\ v.content = call[r].row.content
  BY <1>3, <1>4 DEF Docs!VersionOf, VersionRows, PageRows
<1>6. /\ c \in Calls /\ c.at = "announce" /\ c.op = call[r].op /\ c.page = p /\ c.content = call[r].content
      /\ c.alone = call[r].alone
  BY <1>2 DEF Calls, Writing
<1>7. call'[r] = c /\ \A q \in Requests \ {r} : call'[q] = call[q]
  BY <1>1 DEF PageInv, PageType
<1> HIDE DEF v, c, n
<1>8. /\ versions' \in Seq(VersionRows) /\ n \in DOMAIN versions' /\ versions'[n] = v
      /\ \A i \in DOMAIN versions : i # n /\ i \in DOMAIN versions' /\ versions'[i] = versions[i]
      /\ \A d : /\ Rows(d, versions') = Rows(d, versions) \cup (IF p = d THEN {n} ELSE {})
                /\ Nums(d, versions') = Nums(d, versions) \cup (IF p = d THEN {v.version_number} ELSE {})
  <2>1. n \in DOMAIN versions'
    BY <1>1, <1>4, <1>5 DEF n
  <2> QED BY <1>1, <1>4, <1>5, <2>1, OneMoreVersion DEF n
<1>9. PageType'
  BY <1>1, <1>6, <1>8 DEF PageInv, PageType
<1>10. call[r].alone => /\ Alone(call[r], pages, versions)
                        /\ \A q \in Requests \ {r} : call[q].at \in Writing => call[q].page # p
  BY <1>1 DEF PageInv, CallsSound, Writing, Pending
<1>11. CallsSound'
  <2>1. Sound(c, pages', versions', overlapped')
    <3>1. ASSUME p \notin overlapped PROVE v.content = c.content
      <4>1. call[r].alone
        BY <1>1, <3>1 DEF PageInv, CallsSound, Writing, Pending
      <4> QED BY <1>1, <1>5, <1>6, <1>10, <4>1 DEF Alone
    <3>2. n \in Rows(p, versions') /\ versions'[n] = v
      BY <1>8
    <3> QED BY <1>1, <1>2, <1>3, <1>6, <3>1, <3>2 DEF Sound, Writing, Pending
  <2>2. ASSUME NEW q \in Requests \ {r}
        PROVE  Sound(call[q], pages', versions', overlapped')
    <3>1. Sound(call[q], pages, versions, overlapped)
      BY DEF PageInv, CallsSound
    <3>2. Nums(call[q].page, versions) \subseteq Nums(call[q].page, versions')
      BY <1>8
    <3>3. \A i \in Rows(call[q].page, versions) :
            i \in Rows(call[q].page, versions') /\ versions'[i] = versions[i]
      <4>1. ASSUME NEW i \in Rows(call[q].page, versions)
            PROVE  i \in Rows(call[q].page, versions') /\ versions'[i] = versions[i]
        <5>1. i \in DOMAIN versions
          BY DEF Rows
        <5> QED BY <1>8, <5>1
      <4> QED BY <4>1
    <3> QED BY <1>1, <3>1, <3>2, <3>3 DEF Sound
  <2>3. ASSUME NEW q \in Requests \ {r}, call[q].at \in Writing, call[q].alone
        PROVE  Alone(call[q], pages', versions')
    <3>1. call[q].page # p
      BY <1>1, <2>3 DEF PageInv, CallsSound, Writing, Pending
    <3>2. Nums(call[q].page, versions') = Nums(call[q].page, versions)
      BY <1>8, <3>1
    <3> QED BY <1>1, <2>3, <3>2 DEF PageInv, CallsSound, Alone
  <2>4. Alone(c, pages', versions')
    BY <1>6 DEF Alone, Pending
  <2>5. c.at \in Writing /\ call[r].at \in Writing
    BY <1>1, <1>6 DEF Writing, Pending
  <2> QED BY <1>1, <1>6, <1>7, <2>1, <2>2, <2>3, <2>4, <2>5 DEF PageInv, CallsSound
<1>12. PagesSound'
  <2>0. \A d \in PageIds :
          /\ Numbered(d, versions, overlapped)
          /\ pages[d] = NULL => Rows(d, versions) = {} /\ d \notin overlapped
          /\ \/ d \in unclear \/ pages[d] = NULL \/ Told(d, pages, versions)
             \/ \E q \in Requests : call[q].page = d /\ call[q].at \in Pending
    BY DEF PageInv, PagesSound
  <2>1. ASSUME NEW d \in PageIds, d # p
        PROVE  /\ Numbered(d, versions', overlapped')
               /\ pages'[d] = NULL => Rows(d, versions') = {} /\ d \notin overlapped'
               /\ \/ d \in unclear' \/ pages'[d] = NULL \/ Told(d, pages', versions')
                  \/ \E q \in Requests : call'[q].page = d /\ call'[q].at \in Pending
    <3>1. /\ Rows(d, versions') = Rows(d, versions) /\ Nums(d, versions') = Nums(d, versions)
          /\ \A i \in Rows(d, versions) : versions'[i] = versions[i]
      <4>1. Rows(d, versions') = Rows(d, versions) /\ Nums(d, versions') = Nums(d, versions)
        BY <1>8, <2>1
      <4>2. \A i \in Rows(d, versions) : i \in DOMAIN versions
        BY DEF Rows
      <4> QED BY <1>8, <4>1, <4>2
    <3>2. Numbered(d, versions', overlapped')
      <4>1. Numbered(d, versions, overlapped) /\ overlapped' = overlapped
        BY <1>1, <2>0
      <4>2. \E m \in Nat : Nums(d, versions') = 1..m
        BY <3>1, <4>1 DEF Numbered
      <4> QED BY <3>1, <4>1, <4>2 DEF Numbered
    <3>3. Told(d, pages, versions) => Told(d, pages', versions')
      BY <1>1, <3>1 DEF Told
    <3>4. ASSUME NEW q \in Requests, call[q].page = d PROVE call'[q] = call[q]
      BY <1>7, <2>1, <3>4
    <3> QED BY <1>1, <2>0, <2>1, <3>1, <3>2, <3>3, <3>4
  <2>2. Numbered(p, versions', overlapped')
    <3> DEFINE k == v.version_number
    <3>1. PICK m \in Nat : Nums(p, versions) = 1..m
      BY <1>3, <2>0 DEF Numbered
    <3>2. k = 1 \/ (k > 1 /\ k - 1 \in 1..m)
      BY <1>1, <1>2, <1>5, <3>1 DEF Sound
    <3>3. k \in Nat \ {0} /\ Nums(p, versions') = (1..m) \cup {k}
      BY <1>4, <1>5, <1>8, <3>1
    <3> HIDE DEF k
    <3>4. \E m2 \in Nat : Nums(p, versions') = 1..m2
      <4>1. CASE k \in 1..m
        BY <3>1, <3>3, <4>1
      <4>2. CASE k \notin 1..m
        <5>1. k = m + 1
          BY <3>1, <3>2, <3>3, <4>2
        <5>2. Nums(p, versions') = 1..(m + 1)
          BY <3>1, <3>3, <5>1
        <5> QED BY <3>1, <5>2
      <4> QED BY <4>1, <4>2
    <3>5. ASSUME p \notin overlapped', NEW i \in Rows(p, versions'), NEW j \in Rows(p, versions'),
                 versions'[i].version_number = versions'[j].version_number
          PROVE  i = j
      <4>1. call[r].alone
        BY <1>1, <3>5 DEF PageInv, CallsSound, Writing, Pending
      <4>2. \A l \in Rows(p, versions) : versions[l].version_number \in Nums(p, versions)
        BY DEF Nums
      <4>3. k \notin Nums(p, versions)
        <5>1. \A x \in Nums(p, versions) : x < k
          BY <1>1, <1>5, <1>10, <4>1 DEF Alone, k
        <5>2. k \in Nat
          BY <3>3
        <5> QED BY <5>1, <5>2
      <4>4. \A l \in Rows(p, versions') : l = n \/ (l \in Rows(p, versions) /\ versions'[l] = versions[l])
        BY <1>8 DEF Rows
      <4>5. versions'[n].version_number = k
        BY <1>8 DEF k
      <4>6. p \notin overlapped /\ Numbered(p, versions, overlapped)
        BY <1>1, <1>3, <2>0, <3>5
      <4> QED BY <3>5, <4>2, <4>3, <4>4, <4>5, <4>6 DEF Numbered
    <3> QED BY <3>4, <3>5 DEF Numbered
  <2>3. p \in unclear' \/ Told(p, pages', versions')
    <3>1. CASE ~ call[r].alone
      BY <1>1, <3>1
    <3>2. CASE call[r].alone
      <4>1. v.content = pages'[p].content
        BY <1>1, <1>5, <1>10, <3>2 DEF Alone, Pending
      <4>2. \A m \in Nums(p, versions') : m <= v.version_number
        <5>1. \A m \in Nums(p, versions) : m < v.version_number /\ m \in Nat
          BY <1>1, <1>3, <1>5, <1>10, <2>0, <3>2 DEF Alone, Numbered
        <5> QED BY <1>4, <1>5, <1>8, <5>1
      <4>3. n \in Rows(p, versions') /\ versions'[n] = v
        BY <1>8
      <4> QED BY <4>1, <4>2, <4>3 DEF Told
    <3> QED BY <3>1, <3>2
  <2> QED BY <1>1, <1>3, <2>1, <2>2, <2>3 DEF PagesSound
<1>13. Announced'
  BY <1>1, <1>8 DEF PageInv, Announced
<1> QED BY <1>9, <1>11, <1>12, <1>13 DEF PageInv
\* A call writes a new content to its page, which needs a version now.
LEMMA ContentIsWritten ==
  ASSUME PageInv, NEW r \in Requests, Docs!UpdateCommit(r), call[r].content # call[r].row.content
  PROVE  PageInv'
<1> DEFINE p == call[r].page
           text == call[r].content
           c == [call[r] EXCEPT !.at = "refresh"]
           row == [pages[p] EXCEPT !.content = text]
<1>1. /\ call[r].at = "write" /\ versions' = versions /\ announced' = announced
      /\ overlapped' = overlapped /\ unclear' = unclear
      /\ pages' = [pages EXCEPT ![p].content = text]
      /\ call' = [call EXCEPT ![r].at = "refresh", ![r].content = text]
  BY DEF Docs!UpdateCommit
<1>2. Sound(call[r], pages, versions, overlapped) /\ call[r] \in Calls
  BY DEF PageInv, CallsSound, PageType
<1>3. p \in PageIds /\ pages[p] \in PageRows /\ text \in Contents /\ call[r].op = "update"
  BY <1>1, <1>2 DEF Sound, Writing, Pending, PageInv, PageType
<1>4. row \in PageRows /\ row.content = text
  BY <1>3 DEF PageRows
<1>5. c \in Calls /\ c.at = "refresh" /\ c.op = "update" /\ c.page = p /\ c.content = text /\ c.alone = call[r].alone
  BY <1>2, <1>3 DEF Calls, Writing, Pending
<1>6. call'[r] = c /\ \A q \in Requests \ {r} : call'[q] = call[q]
  <2>1. [[call[r] EXCEPT !.at = "refresh"] EXCEPT !.content = text] = c
    BY <1>2 DEF Calls
  <2> QED BY <1>1, <2>1 DEF PageInv, PageType
<1>7. /\ pages'[p] = row /\ \A d \in PageIds : d # p => pages'[d] = pages[d]
      /\ pages' \in [PageIds -> PageRows \cup {NULL}]
  BY <1>1, <1>3, <1>4 DEF PageInv, PageType
<1> HIDE DEF c, row
<1>8. row # NULL
  BY <1>4, PageRowIsNotNull
<1>9. PageType'
  <2>1. call' = [q \in Requests |-> call'[q]]
    BY <1>1 DEF PageInv, PageType
  <2>2. \A q \in Requests : call'[q] \in Calls
    BY <1>5, <1>6 DEF PageInv, PageType
  <2>3. call' \in [Requests -> Calls]
    BY <2>1, <2>2
  <2> QED BY <1>1, <1>7, <2>3 DEF PageInv, PageType
<1>10. \A d \in PageIds : pages[d] # NULL => pages'[d] # NULL
  BY <1>7, <1>8
<1>11. CallsSound'
  <2>1. Sound(c, pages', versions', overlapped')
    BY <1>3, <1>5, <1>7, <1>8 DEF Sound, Writing, Pending
  <2>2. Alone(c, pages', versions')
    BY <1>4, <1>5, <1>7 DEF Alone, Pending
  <2>3. ASSUME NEW q \in Requests \ {r}
        PROVE  Sound(call[q], pages', versions', overlapped')
    <3>1. Sound(call[q], pages, versions, overlapped)
      BY DEF PageInv, CallsSound
    <3> QED BY <1>1, <1>10, <3>1 DEF Sound
  <2>4. ASSUME NEW q \in Requests \ {r}, call[q].at \in Writing, call[q].alone
        PROVE  Alone(call[q], pages', versions')
    <3>1. call[q].page # p /\ call[q].page \in PageIds
      BY <1>1, <2>4 DEF PageInv, CallsSound, Writing, Pending, Sound
    <3> QED BY <1>1, <1>7, <2>4, <3>1 DEF PageInv, CallsSound, Alone
  <2>5. c.at \in Writing /\ call[r].at \in Writing
    BY <1>1, <1>5 DEF Writing, Pending
  <2>6. ASSUME NEW q \in Requests, call'[q].at \in Writing, call'[q].alone, NEW t \in Requests \ {q},
               call'[t].at \in Writing
        PROVE  call'[t].page # call'[q].page
    <3>1. \A s \in Requests : /\ call'[s].at \in Writing <=> call[s].at \in Writing
                              /\ call'[s].page = call[s].page /\ call'[s].alone = call[s].alone
      BY <1>5, <1>6, <2>5
    <3> QED BY <2>6, <3>1 DEF PageInv, CallsSound
  <2>7. ASSUME NEW q \in Requests, call'[q].at \in Writing, call'[q].page \notin overlapped'
        PROVE  call'[q].alone
    <3>1. /\ call'[q].at \in Writing <=> call[q].at \in Writing
          /\ call'[q].page = call[q].page /\ call'[q].alone = call[q].alone
      BY <1>5, <1>6, <2>5
    <3> QED BY <1>1, <2>7, <3>1 DEF PageInv, CallsSound
  <2> QED BY <1>5, <1>6, <2>1, <2>2, <2>3, <2>4, <2>5, <2>6, <2>7 DEF CallsSound
<1>12. PagesSound'
  <2> SUFFICES ASSUME NEW d \in PageIds
               PROVE  /\ Numbered(d, versions', overlapped')
                      /\ pages'[d] = NULL => Rows(d, versions') = {} /\ d \notin overlapped'
                      /\ \/ d \in unclear' \/ pages'[d] = NULL \/ Told(d, pages', versions')
                         \/ \E q \in Requests : call'[q].page = d /\ call'[q].at \in Pending
    BY DEF PagesSound
  <2>1. CASE d = p
    BY <1>1, <1>5, <1>6, <1>7, <1>8, <2>1 DEF PageInv, PagesSound, Pending
  <2>2. CASE d # p
    <3>1. Told(d, pages, versions) => Told(d, pages', versions')
      BY <1>1, <1>7, <2>2 DEF Told
    <3>2. ASSUME NEW q \in Requests, call[q].page = d PROVE call'[q] = call[q]
      BY <1>6, <2>2, <3>2
    <3>3. /\ Numbered(d, versions, overlapped)
          /\ pages[d] = NULL => Rows(d, versions) = {} /\ d \notin overlapped
          /\ \/ d \in unclear \/ pages[d] = NULL \/ Told(d, pages, versions)
             \/ \E q \in Requests : call[q].page = d /\ call[q].at \in Pending
      BY DEF PageInv, PagesSound
    <3>4. pages'[d] = pages[d]
      BY <1>7, <2>2
    <3> QED BY <1>1, <3>1, <3>2, <3>3, <3>4
  <2> QED BY <2>1, <2>2
<1>13. Announced'
  BY <1>1 DEF PageInv, Announced
<1> QED BY <1>9, <1>11, <1>12, <1>13 DEF PageInv

\* Every step of a call keeps the invariant.
LEMMA PageNext == PageInv /\ Docs!Next => PageInv'
<1> SUFFICES ASSUME PageInv, Docs!Next PROVE PageInv'
  OBVIOUS
<1>0. \A q \in Requests : Sound(call[q], pages, versions, overlapped) /\ call[q] \in Calls
  BY DEF PageInv, CallsSound, PageType
<1>1. ASSUME NEW r \in Requests, NEW text \in Contents, Docs!CreatePage(r, text)
      PROVE  PageInv'
  <2>1. PICK p \in PageIds : /\ call[r] = Docs!Free /\ pages[p] = NULL
                             /\ pages' = [pages EXCEPT ![p] = [content |-> text, is_active |-> TRUE]]
                             /\ Docs!Start(r, "create", "refresh", p, text, NULL)
                             /\ versions' = versions /\ announced' = announced
    BY <1>1 DEF Docs!CreatePage, Docs!PageIds, PageIds
  <2> QED BY <2>1, CallStarts
<1>2. ASSUME NEW r \in Requests, NEW text \in Contents, NEW p \in PageIds, Docs!UpdateLoad(r, p, text)
      PROVE  PageInv'
  <2>1. /\ call[r] = Docs!Free /\ pages[p] # NULL /\ pages[p] \in PageRows /\ pages' = pages
        /\ Docs!Start(r, "update", "write", p, text, pages[p])
        /\ versions' = versions /\ announced' = announced
    BY <1>2 DEF Docs!UpdateLoad, PageInv, PageType
  <2> QED BY <2>1, CallStarts
<1>3. ASSUME NEW r \in Requests, Docs!UpdateCommit(r)
      PROVE  PageInv'
  <2>1. CASE call[r].content # call[r].row.content
    BY <1>3, <2>1, ContentIsWritten
  <2>2. CASE call[r].content = call[r].row.content
    <3> DEFINE c == [[call[r] EXCEPT !.at = "announce"] EXCEPT !.content = NULL]
    <3>1. /\ call[r].at = "write" /\ pages' = pages /\ versions' = versions /\ announced' = announced
          /\ overlapped' = overlapped /\ unclear' = unclear
          /\ call' = [call EXCEPT ![r].at = "announce", ![r].content = NULL]
      BY <1>3, <2>2 DEF Docs!UpdateCommit
    <3>2. call' = [call EXCEPT ![r] = c]
      BY <3>1 DEF PageInv, PageType
    <3>3. /\ c \in Calls /\ c.at = "announce" /\ c.op = call[r].op /\ c.page = call[r].page
          /\ c.content = NULL /\ c.alone = call[r].alone
      BY <1>0 DEF Calls, Writing
    <3> HIDE DEF c
    <3>4. Sound(c, pages', versions, overlapped) /\ (c.alone => Alone(c, pages', versions))
      BY <1>0, <3>1, <3>3 DEF Sound, Alone, Writing, Pending
    <3>5. Announced'
      BY <3>1 DEF PageInv, Announced
    <3> QED BY <3>1, <3>2, <3>3, <3>4, <3>5, CallGoesOn DEF PageInv, PageType, Writing, Pending
  <2> QED BY <2>1, <2>2
<1>4. ASSUME NEW r \in Requests, Docs!RefreshPage(r)
      PROVE  PageInv'
  <2> DEFINE at == IF call[r].op = "create" THEN "version" ELSE "number"
             row == pages[call[r].page]
             c == [[[call[r] EXCEPT !.row = row] EXCEPT !.at = at] EXCEPT !.version_number = 1]
  <2>1. /\ call[r].at = "refresh" /\ pages' = pages /\ versions' = versions /\ announced' = announced
        /\ overlapped' = overlapped /\ unclear' = unclear
        /\ call' = [call EXCEPT ![r].row = row, ![r].at = at, ![r].version_number = 1]
    BY <1>4 DEF Docs!RefreshPage
  <2>2. call' = [call EXCEPT ![r] = c]
    BY <2>1 DEF PageInv, PageType
  <2>3. call[r].page \in PageIds /\ row \in PageRows /\ call[r].op \in {"create", "update"}
    BY <1>0, <2>1 DEF Sound, Writing, Pending, PageInv, PageType
  <2>4. at \in {"number", "version"} /\ (at = "number" => call[r].op = "update") /\ (at = "version" => call[r].op = "create")
    BY <2>3
  <2> HIDE DEF at
  <2>5. /\ c \in Calls /\ c.at = at /\ c.op = call[r].op /\ c.page = call[r].page /\ c.row = row
        /\ c.version_number = 1 /\ c.content = call[r].content /\ c.alone = call[r].alone
    BY <1>0, <2>3, <2>4 DEF Calls, Writing, Pending
  <2> HIDE DEF c
  <2>6. Sound(c, pages', versions, overlapped)
    BY <1>0, <2>1, <2>3, <2>4, <2>5 DEF Sound, Writing, Pending
  <2>7. ASSUME c.alone PROVE Alone(c, pages', versions)
    <3>1. Alone(call[r], pages, versions)
      BY <2>1, <2>5, <2>7 DEF PageInv, CallsSound, Writing, Pending
    <3> QED BY <2>1, <2>4, <2>5, <3>1 DEF Alone, Pending
  <2>8. Announced'
    BY <2>1 DEF PageInv, Announced
  <2> QED BY <2>1, <2>2, <2>4, <2>5, <2>6, <2>7, <2>8, CallGoesOn DEF PageInv, PageType, Writing, Pending
<1>5. ASSUME NEW r \in Requests, Docs!next_version_number(r)
      PROVE  PageInv'
  <2> DEFINE k == 1 + Docs!Max(Docs!Numbers(call[r].page) \cup {0})
             c == [[call[r] EXCEPT !.at = "version"] EXCEPT !.version_number = k]
  <2>1. /\ call[r].at = "number" /\ pages' = pages /\ versions' = versions /\ announced' = announced
        /\ overlapped' = overlapped /\ unclear' = unclear
        /\ call' = [call EXCEPT ![r].at = "version", ![r].version_number = k]
    BY <1>5 DEF Docs!next_version_number
  <2>2. call' = [call EXCEPT ![r] = c]
    BY <2>1 DEF PageInv, PageType
  <2>3. call[r].page \in PageIds /\ call[r].op = "update"
    BY <1>0, <2>1 DEF Sound, Writing, Pending
  <2>4. PICK m \in Nat : Nums(call[r].page, versions) = 1..m
    BY <2>3 DEF PageInv, PagesSound, Numbered
  <2>5. k = m + 1
    <3>1. Docs!Numbers(call[r].page) = 1..m
      BY <2>4, NumbersAreNums
    <3>2. Docs!Max((1..m) \cup {0}) = m
      BY MaxOfInterval
    <3> QED BY <3>1, <3>2
  <2> HIDE DEF k
  <2>6. /\ c \in Calls /\ c.at = "version" /\ c.op = "update" /\ c.page = call[r].page /\ c.row = call[r].row
        /\ c.version_number = k /\ c.content = call[r].content /\ c.alone = call[r].alone
    <3>1. k \in Nat /\ call[r] \in Calls
      BY <1>0, <2>4, <2>5
    <3> QED BY <2>3, <3>1 DEF Calls, Writing, Pending
  <2> HIDE DEF c
  <2>7. Sound(c, pages', versions, overlapped)
    <3>1. k = 1 \/ (k > 1 /\ k - 1 \in 1..m)
      BY <2>4, <2>5
    <3> QED BY <1>0, <2>1, <2>3, <2>4, <2>6, <3>1 DEF Sound, Writing, Pending
  <2>8. ASSUME c.alone PROVE Alone(c, pages', versions)
    <3>1. Alone(call[r], pages, versions)
      BY <2>1, <2>6, <2>8 DEF PageInv, CallsSound, Writing, Pending
    <3> QED BY <2>1, <2>4, <2>5, <2>6, <3>1 DEF Alone, Pending
  <2>9. Announced'
    BY <2>1 DEF PageInv, Announced
  <2> QED BY <2>1, <2>2, <2>6, <2>7, <2>8, <2>9, CallGoesOn DEF PageInv, PageType, Writing, Pending
<1>6. ASSUME NEW r \in Requests, Docs!create_version(r)
      PROVE  PageInv'
  BY <1>6, VersionIsWritten
<1>7. ASSUME NEW r \in Requests, Docs!publish_event(r)
      PROVE  PageInv'
  <2> DEFINE event == [event_name |-> call[r].op, page_id |-> call[r].page, content |-> call[r].content]
  <2>1. /\ call[r].at = "announce" /\ call' = [call EXCEPT ![r] = Docs!Free]
        /\ announced' = announced \cup {event} \/ announced' = announced
        /\ pages' = pages /\ versions' = versions /\ overlapped' = overlapped /\ unclear' = unclear
    BY <1>7 DEF Docs!publish_event, Docs!Stop
  <2>2. call[r].content # NULL =>
          \E i \in Rows(call[r].page, versions) :
             call[r].page \notin overlapped => versions[i].content = call[r].content
    BY <1>0, <2>1 DEF Sound
  <2>3. Announced'
    BY <2>1, <2>2 DEF PageInv, Announced, Rows
  <2> QED BY <2>1, <2>3, CallGoesOn, FreeSound DEF PageInv, PageType, Writing, Pending
<1>8. ASSUME NEW r \in Requests, Docs!DeleteCommit(r)
      PROVE  PageInv'
  <2> DEFINE p == call[r].page
             row == [pages[p] EXCEPT !.is_active = FALSE]
  <2>1. /\ call[r].at = "hide" /\ call' = [call EXCEPT ![r] = Docs!Free]
        /\ pages' = [pages EXCEPT ![p].is_active = FALSE]
        /\ announced' = announced /\ versions' = versions /\ overlapped' = overlapped /\ unclear' = unclear
    BY <1>8 DEF Docs!DeleteCommit, Docs!Stop
  <2>2. p \in PageIds /\ pages[p] \in PageRows
    BY <1>0, <2>1 DEF Sound, PageInv, PageType
  <2>3. row \in PageRows /\ row.content = pages[p].content
    BY <2>2 DEF PageRows
  <2>4. pages'[p] = row /\ pages' \in [PageIds -> PageRows \cup {NULL}]
        /\ \A d \in PageIds : d # p => pages'[d] = pages[d]
    BY <2>1, <2>2, <2>3 DEF PageInv, PageType
  <2> HIDE DEF row
  <2>5. pages[p] # NULL /\ pages'[p] # NULL /\ pages'[p].content = pages[p].content
    BY <2>2, <2>3, <2>4, PageRowIsNotNull
  <2>6. Announced'
    BY <2>1 DEF PageInv, Announced
  <2> QED BY <2>1, <2>4, <2>5, <2>6, CallGoesOn, FreeSound DEF Writing, Pending
<1>9. ASSUME NEW r \in Requests, Docs!Fail(r)
      PROVE  PageInv'
  <2>1. /\ call' = [call EXCEPT ![r] = Docs!Free]
        /\ pages' = pages /\ announced' = announced /\ versions' = versions /\ overlapped' = overlapped
        /\ unclear \subseteq unclear'
        /\ r \in Docs!AtWork(call[r].page) => call[r].page \in unclear'
    BY <1>9 DEF Docs!Fail, Docs!Stop
  <2>2. call[r].at \in Pending => r \in Docs!AtWork(call[r].page)
    BY <1>0 DEF Docs!AtWork, Sound, Pending, Writing
  <2>3. Announced'
    BY <2>1 DEF PageInv, Announced
  <2> QED BY <2>1, <2>2, <2>3, CallGoesOn, FreeSound DEF PageInv, PageType, Writing, Pending
<1>10. ASSUME NEW r \in Requests, NEW p \in PageIds, Docs!DeleteLoad(r, p)
       PROVE  PageInv'
  <2> DEFINE c == [[[Docs!Free EXCEPT !.op = "delete"] EXCEPT !.at = "hide"] EXCEPT !.page = p]
  <2>1. /\ call[r] = Docs!Free /\ pages[p] # NULL /\ call' = [call EXCEPT ![r] = c]
        /\ pages' = pages /\ announced' = announced /\ versions' = versions /\ overlapped' = overlapped
        /\ unclear' = unclear
    BY <1>10 DEF Docs!DeleteLoad
  <2>2. c \in Calls /\ c.op = "delete" /\ c.at = "hide" /\ c.page = p
    BY DEF Docs!Free, Calls, Writing, Pending
  <2> HIDE DEF c
  <2>3. Sound(c, pages', versions, overlapped)
    BY <2>1, <2>2 DEF Sound, Writing, Pending
  <2>4. Announced'
    BY <2>1 DEF PageInv, Announced
  <2> QED BY <2>1, <2>2, <2>3, <2>4, CallGoesOn, FreeSound DEF PageInv, PageType, Writing, Pending
<1> QED
  BY <1>1, <1>2, <1>3, <1>4, <1>5, <1>6, <1>7, <1>8, <1>9, <1>10 DEF Docs!Next, Docs!PageIds, PageIds

LEMMA PageStays ==
  ASSUME PageInv, UNCHANGED <<s1, s2, s3, s4, s5, s6>>
  PROVE  PageInv'
BY DEF PageInv, PageType, CallsSound, PagesSound, Announced

\* In every reachable state of docs-service, by the lemmas above.
LEMMA PageAlways == Spec => [](part = "docs" => PageInv)
<1> DEFINE Inv == part = "docs" => PageInv
<1>1. Init => Inv
  BY PageInit DEF Init
<1>2. Inv /\ [Next]_vars => Inv'
  <2> SUFFICES ASSUME Inv, [Next]_vars, part' = "docs" PROVE PageInv'
    OBVIOUS
  <2> QED BY DocsStep, PageNext, PageStays
<1> QED BY <1>1, <1>2, PTL DEF Spec

\* VersioningService.create_version takes the next number after reading the largest:
\* numbers of a page's versions have no gap, and none twice if no two calls overlapped.
THEOREM VersionsNumberedHolds == Spec => []VersionsNumbered
<1>1. (part = "docs" => PageInv) => VersionsNumbered
  <2> SUFFICES ASSUME PageInv, NEW p \in Docs!PageIds
               PROVE  /\ Docs!Numbers(p) = 1..Docs!Cardinality(Docs!Numbers(p))
                      /\ p \notin overlapped =>
                           Docs!Cardinality(Docs!Numbers(p)) =
                             Docs!Cardinality({i \in DOMAIN versions : versions[i].page_id = p})
    BY DEF VersionsNumbered, Docs!VersionsNumbered
  <2>0. p \in PageIds /\ Docs!Numbers(p) = Nums(p, versions)
        /\ {i \in DOMAIN versions : versions[i].page_id = p} = Rows(p, versions)
    BY NumbersAreNums DEF Rows, Docs!PageIds, PageIds
  <2>1. PICK n \in Nat : Nums(p, versions) = 1..n
    BY <2>0 DEF PageInv, PagesSound, Numbered
  <2>2. Cardinality(1..n) = n /\ IsFiniteSet(1..n)
    BY FS_Interval
  <2>3. ASSUME p \notin overlapped PROVE Cardinality(Nums(p, versions)) = Cardinality(Rows(p, versions))
    <3> DEFINE f == [i \in Rows(p, versions) |-> versions[i].version_number]
    <3>1. f \in Injection(Rows(p, versions), Nums(p, versions))
      BY <2>0, <2>3 DEF PageInv, PagesSound, Numbered, Nums, Injection, IsInjective
    <3>2. f \in Surjection(Rows(p, versions), Nums(p, versions))
      BY DEF Nums, Surjection
    <3> QED BY <2>1, <2>2, <3>1, <3>2, FS_Injection
  <2>4. Nums(p, versions) = 1..Cardinality(Nums(p, versions))
    BY <2>1, <2>2
  <2> QED BY <2>0, <2>3, <2>4, SameCardinality
<1> QED BY <1>1, PageAlways, PTL

\* PageService writes the page, its version and the event one after the other: unless the
\* last write failed or overlapped another, a page at rest is what its last version says.
THEOREM LatestVersionIsPageHolds == Spec => []LatestVersionIsPage
<1>1. (part = "docs" => PageInv) => LatestVersionIsPage
  <2> SUFFICES ASSUME PageInv, NEW p \in PageIds \ unclear, pages[p] # NULL, Docs!AtWork(p) = {}
               PROVE  \E i \in DOMAIN versions :
                        versions[i] = Docs!VersionOf(p, Docs!Max(Docs!Numbers(p)), pages[p].content)
    BY DEF LatestVersionIsPage, Docs!LatestVersionIsPage, Docs!PageIds, PageIds
  <2>1. \A q \in Requests : ~ (call[q].page = p /\ call[q].at \in Pending)
    BY DEF PageInv, CallsSound, Sound, Docs!AtWork, Pending, Writing
  <2>2. PICK i \in Rows(p, versions) : /\ versions[i].content = pages[p].content
                                       /\ \A n \in Nums(p, versions) : n <= versions[i].version_number
    BY <2>1 DEF PageInv, PagesSound, Told
  <2>3. PICK m \in Nat : Nums(p, versions) = 1..m
    BY DEF PageInv, PagesSound, Numbered
  <2>4. versions[i] \in VersionRows /\ i \in DOMAIN versions /\ versions[i].page_id = p
    BY DEF Rows, PageInv, PageType
  <2>5. versions[i].version_number = m /\ m # 0
    <3>1. versions[i].version_number \in 1..m
      BY <2>3 DEF Nums
    <3> QED BY <2>2, <2>3, <3>1
  <2>6. Docs!Max(Docs!Numbers(p)) = m
    BY <2>3, <2>5, MaxOfInterval, NumbersAreNums
  <2>7. versions[i] = [page_id |-> p, version_number |-> m, content |-> pages[p].content]
    BY <2>2, <2>4, <2>5 DEF VersionRows
  <2> QED BY <2>4, <2>6, <2>7 DEF Docs!VersionOf
<1> QED BY <1>1, PageAlways, PTL

\* publish_event after the version is stored: an announced content is that of a version,
\* if nobody else wrote the page meanwhile.
THEOREM AnnouncedIsStoredHolds == Spec => []AnnouncedIsStored
<1>1. (part = "docs" => PageInv) => AnnouncedIsStored
  BY DEF AnnouncedIsStored, Docs!AnnouncedIsStored, PageInv, Announced
<1> QED BY <1>1, PageAlways, PTL
-----------------------------------------------------------------------------
(* Chunks of a document                                                    *)

docs == s1
chunks == s2
vectors == s3
embeddings == s4
task == s5
dirty == s6
retired == s7
indexed == s8
crossed == s9
USE DEF docs, chunks, vectors, embeddings, task, dirty, retired, indexed, crossed

DocIds == 1..MaxDoc
ChunkIds == 1..MaxChunk
ChunkRows == [document_id : DocIds, index : Nat, text : Texts]
WriteOps == {"create", "ingest", "update", "delete"}
Tasks == [op : WriteOps \cup {"none", "embed"},
          at : {"idle", "write", "refresh", "purge", "insert", "drop", "gone", "list", "vector", "record"},
          doc : DocIds \cup {0}, text : Texts \cup {NULL}, queue : SUBSET ChunkIds,
          row : Texts \cup ChunkRows \cup {NULL}]
Embeds == {"vector", "record"}

\* What a call may be doing.
Able(k) ==
  /\ k \in Tasks
  /\ k.at = "idle" => k.op = "none"
  /\ k.at # "idle" => k.doc \in DocIds
  /\ k.at \in {"write", "refresh"} => k.op = "update"
  /\ k.at \in {"drop", "gone"} => k.op = "delete"
  /\ k.at = "purge" => k.op \in WriteOps
  /\ k.at = "insert" => k.op \in {"create", "ingest", "update"}
  /\ k.at = "list" => k.op \in {"ingest", "embed"}
  /\ k.at = "write" \/ k.at = "insert" \/ (k.at = "purge" /\ k.op # "delete") => k.text \in Texts
  /\ k.at = "write" => k.row \in Texts
  /\ k.at \in Embeds => k.op = "embed" /\ k.queue # {} /\ k.row \in ChunkRows \cup {NULL}

Piece(d, i, text) == [document_id |-> d, index |-> i, text |-> text]
Of(d, cs) == {c \in ChunkIds : cs[c] # NULL /\ cs[c].document_id = d}

\* The chunks of a document have ids one after the other, in the order of its text.
Lie(d, cs, first, text) ==
  /\ Of(d, cs) = first..(first + Size[text] - 1)
  /\ \A c \in Of(d, cs) : cs[c] = Piece(d, c - first + 1, text)
Laid(d, cs) == Of(d, cs) # {} => \E first \in Nat, text \in Texts : Lie(d, cs, first, text)

MemoryInv ==
  /\ docs \in [DocIds -> Texts \cup {NULL}]
  /\ chunks \in [ChunkIds -> ChunkRows \cup {NULL}]
  /\ task \in [Requests -> Tasks]
  /\ \A r \in Requests : Able(task[r])
  /\ \A d \in DocIds : Laid(d, chunks)

LEMMA MemoryStep ==
  ASSUME [Next]_vars, part' = "memory"
  PROVE  /\ part = "memory"
         /\ Memory!Next \/ UNCHANGED <<s1, s2, s3, s4, s5, s6, s7, s8, s9>>
BY DEF Next, vars

LEMMA ChunkRowIsNotNull == NULL \notin ChunkRows /\ NULL \notin Texts
BY NullAssumption DEF ChunkRows, DocIds

LEMMA ChunksOfAre == MemoryInv => \A d : Memory!ChunksOf(d) = Of(d, chunks)
BY DEF MemoryInv, Memory!ChunksOf, Memory!Used, Of

LEMMA RestAble == /\ Able(Memory!Rest) /\ Memory!Rest.at = "idle" /\ Memory!Rest.op = "none"
                  /\ Memory!Rest.doc = 0 /\ Memory!Rest.text = NULL /\ Memory!Rest.row = NULL
BY DEF Memory!Rest, Able, Tasks, Embeds

\* Chunks of a document nobody touches.
Same(d, cs, bs) == Of(d, bs) = Of(d, cs) /\ \A c \in Of(d, cs) : bs[c] = cs[c]

LEMMA SameLaid == \A d, cs, bs : Same(d, cs, bs) /\ Laid(d, cs) => Laid(d, bs)
<1> SUFFICES ASSUME NEW d, NEW cs, NEW bs, Same(d, cs, bs), Laid(d, cs), Of(d, bs) # {}
             PROVE  \E first \in Nat, text \in Texts : Lie(d, bs, first, text)
  BY DEF Laid
<1>1. PICK first \in Nat, text \in Texts : Lie(d, cs, first, text)
  BY DEF Laid, Same
<1>2. Lie(d, bs, first, text)
  BY <1>1 DEF Lie, Same
<1> QED BY <1>2

\* The rows of a text are as many as Size says, and have the indexes up to there.
LEMMA TextRows ==
  ASSUME NEW d, NEW text \in Texts
  PROVE  LET new == Memory!chunk_text(d, text)
         IN /\ new = {Piece(d, i, text) : i \in 1..Size[text]}
            /\ Memory!Cardinality(new) = Size[text] /\ Size[text] \in Nat
<1> DEFINE new == {Piece(d, i, text) : i \in 1..Size[text]}
           f == [i \in 1..Size[text] |-> Piece(d, i, text)]
<1>1. Memory!chunk_text(d, text) = new
  BY DEF Memory!chunk_text, Piece
<1>2. Size[text] \in Nat
  BY SizeAssumption
<1>3. f \in Surjection(1..Size[text], new)
  BY DEF Surjection
<1>4. f \in Injection(1..Size[text], new)
  BY DEF Injection, IsInjective, Piece
<1>5. IsFiniteSet(1..Size[text]) /\ Cardinality(1..Size[text]) = Size[text]
  BY <1>2, FS_Interval
<1>6. Cardinality(new) = Size[text]
  BY <1>3, <1>4, <1>5, FS_Surjection
<1>7. Memory!Cardinality(new) = Cardinality(new)
  BY DEF Memory!Cardinality, Cardinality
<1> QED BY <1>1, <1>2, <1>6, <1>7

\* The next id is larger than those of the rows there are.
LEMMA NextIdIsFree ==
  ASSUME MemoryInv
  PROVE  /\ Memory!NextId(chunks) \in Nat \ {0}
         /\ \A c \in ChunkIds : c >= Memory!NextId(chunks) => chunks[c] = NULL
         /\ Memory!NextId(docs) \in DocIds => docs[Memory!NextId(docs)] = NULL
<1> DEFINE used == Memory!Used(chunks) \cup {0}
           had == Memory!Used(docs) \cup {0}
<1>1. used \subseteq 0..MaxChunk /\ used # {} /\ had \subseteq 0..MaxDoc /\ had # {}
  BY BoundAssumption DEF Memory!Used, MemoryInv, ChunkIds, DocIds
<1>2. Memory!Max(used) \in used /\ \A y \in used : Memory!Max(used) >= y
  <2>1. \E x \in used : \A y \in used : x >= y
    BY <1>1, HasMax, BoundAssumption
  <2> QED BY <2>1 DEF Memory!Max
<1>3. Memory!Max(had) \in had /\ \A y \in had : Memory!Max(had) >= y
  <2>1. \E x \in had : \A y \in had : x >= y
    BY <1>1, HasMax, BoundAssumption
  <2> QED BY <2>1 DEF Memory!Max
<1>4. \A c \in ChunkIds : chunks[c] # NULL => c \in used
  BY DEF Memory!Used, MemoryInv
<1>5. \A d \in DocIds : docs[d] # NULL => d \in had
  BY DEF Memory!Used, MemoryInv
<1>6. Memory!NextId(chunks) = 1 + Memory!Max(used) /\ Memory!NextId(docs) = 1 + Memory!Max(had)
  BY DEF Memory!NextId
<1> HIDE DEF used, had
<1>7. Memory!Max(used) \in Nat /\ Memory!Max(had) \in Nat
  <2>1. (\A x \in used : x \in Nat) /\ (\A x \in had : x \in Nat)
    BY <1>1
  <2> QED BY <1>2, <1>3, <2>1
<1>8. ASSUME NEW c \in ChunkIds, c >= Memory!NextId(chunks) PROVE chunks[c] = NULL
  BY <1>2, <1>4, <1>6, <1>7, <1>8 DEF ChunkIds
<1>9. ASSUME Memory!NextId(docs) \in DocIds PROVE docs[Memory!NextId(docs)] = NULL
  BY <1>3, <1>5, <1>6, <1>7, <1>9 DEF DocIds
<1> QED BY <1>6, <1>7, <1>8, <1>9

\* What InsertChunks stores: a whole text where nothing was, for a document without
\* chunks; nothing for one that has chunks.
Filled(cs, bs, d, text, first) ==
  /\ Of(d, cs) = {}
  /\ \A c \in first..(first + Size[text] - 1) : c \in ChunkIds /\ cs[c] = NULL
  /\ bs = [c \in ChunkIds |-> IF c \in first..(first + Size[text] - 1)
                              THEN Piece(d, c - first + 1, text) ELSE cs[c]]

LEMMA InsertFills ==
  ASSUME MemoryInv, NEW r \in Requests, Memory!InsertChunks(r)
  PROVE  LET d == task[r].doc
             text == task[r].text
         IN /\ d \in DocIds /\ text \in Texts /\ task[r].at = "insert"
            /\ \/ chunks' = chunks /\ (Of(d, chunks) # {} \/ Size[text] = 0)
               \/ \E first \in Nat \ {0} : Filled(chunks, chunks', d, text, first)
            /\ Of(d, chunks) # {} \/ task' = [task EXCEPT ![r] = IF task[r].op = "ingest" THEN [task[r] EXCEPT !.at = "list"] ELSE Memory!Rest]
            /\ \/ task' = [task EXCEPT ![r] = Memory!Rest]
               \/ task[r].op = "ingest" /\ task' = [task EXCEPT ![r] = [task[r] EXCEPT !.at = "list"]]
<1> DEFINE d == task[r].doc
           text == task[r].text
           new == Memory!chunk_text(d, text)
           first == Memory!NextId(chunks)
           n == Size[text]
           taken == {chunks[c].index : c \in Memory!ChunksOf(d)} \cap {row.index : row \in new}
           fill == [c \in ChunkIds |-> IF \E row \in new : c = first + row.index - 1
                                       THEN CHOOSE row \in new : c = first + row.index - 1
                                       ELSE chunks[c]]
<1>1. /\ task[r].at = "insert" /\ first + Memory!Cardinality(new) - 1 <= MaxChunk
      /\ IF taken # {} THEN Memory!End(r) /\ chunks' = chunks
         ELSE /\ chunks' = fill
              /\ IF task[r].op = "ingest" THEN Memory!Step(r, "list") ELSE Memory!End(r)
  BY DEF Memory!InsertChunks, Memory!ChunkIds, ChunkIds
<1>2. d \in DocIds /\ text \in Texts
  BY <1>1 DEF MemoryInv, Able
<1>3. n \in Nat /\ Memory!Cardinality(new) = n /\ new = {Piece(d, i, text) : i \in 1..n}
  BY <1>2, TextRows
<1>4. first \in Nat \ {0} /\ \A c \in ChunkIds : c >= first => chunks[c] = NULL
  BY NextIdIsFree
<1>5. Memory!ChunksOf(d) = Of(d, chunks)
  BY ChunksOfAre
<1> HIDE DEF first, n, d, text, new
<1>6. \A c \in first..(first + n - 1) : c \in ChunkIds /\ chunks[c] = NULL
  <2>1. MaxChunk \in Nat /\ first + n - 1 <= MaxChunk
    BY <1>1, <1>3, BoundAssumption
  <2>2. \A c \in first..(first + n - 1) : c \in 1..MaxChunk /\ c >= first
    BY <1>3, <1>4, <2>1
  <2> QED BY <1>4, <2>2 DEF ChunkIds
<1>7. fill = [c \in ChunkIds |-> IF c \in first..(first + n - 1) THEN Piece(d, c - first + 1, text) ELSE chunks[c]]
  <2> SUFFICES ASSUME NEW c \in ChunkIds
               PROVE  fill[c] = IF c \in first..(first + n - 1) THEN Piece(d, c - first + 1, text) ELSE chunks[c]
    OBVIOUS
  <2>1. \A row \in new : \E i \in 1..n : row = Piece(d, i, text) /\ row.index = i
    BY <1>3 DEF Piece
  <2>2. CASE c \in first..(first + n - 1)
    <3> DEFINE row == Piece(d, c - first + 1, text)
    <3>1. c - first + 1 \in 1..n /\ row.index = c - first + 1
      BY <1>3, <1>4, <2>2 DEF Piece, ChunkIds
    <3>2. row \in new /\ c = first + row.index - 1
      BY <1>3, <1>4, <3>1 DEF ChunkIds
    <3>3. \A other \in new : c = first + other.index - 1 => other = row
      BY <1>3, <1>4, <2>1, <3>1 DEF ChunkIds
    <3> HIDE DEF row
    <3>4. (CHOOSE other \in new : c = first + other.index - 1) = row
      BY <3>2, <3>3
    <3> QED BY <2>2, <3>2, <3>4 DEF row
  <2>3. CASE c \notin first..(first + n - 1)
    <3>1. \A row \in new : c # first + row.index - 1
      BY <1>3, <1>4, <2>1, <2>3 DEF ChunkIds
    <3> QED BY <2>3, <3>1
  <2> QED BY <2>2, <2>3
<1> HIDE DEF fill
<1>8. CASE taken # {}
  <2>1. Of(d, chunks) # {}
    BY <1>5, <1>8
  <2> QED BY <1>1, <1>2, <1>8, <2>1 DEF Memory!End, d, text
<1>9. CASE taken = {}
  <2>1. Of(d, chunks) = {} \/ n = 0
    <3> SUFFICES ASSUME Of(d, chunks) # {}, n # 0 PROVE FALSE
      OBVIOUS
    <3>1. PICK f \in Nat, t \in Texts : Lie(d, chunks, f, t)
      BY <1>2 DEF MemoryInv, Laid
    <3>2. Size[t] \in Nat
      BY SizeAssumption
    <3>3. f \in Of(d, chunks) /\ chunks[f].index = 1
      <4>1. PICK c : c \in f..(f + Size[t] - 1)
        BY <3>1 DEF Lie
      <4>2. f \in Of(d, chunks)
        BY <3>1, <3>2, <4>1 DEF Lie
      <4>3. chunks[f] = Piece(d, f - f + 1, t)
        BY <3>1, <4>2 DEF Lie
      <4> QED BY <4>2, <4>3 DEF Piece
    <3>4. Piece(d, 1, text) \in new /\ Piece(d, 1, text).index = 1
      BY <1>3 DEF Piece
    <3>5. 1 \in taken
      BY <1>5, <3>3, <3>4
    <3> QED BY <1>9, <3>5
  <2>2. n = 0 => chunks' = chunks
    <3> SUFFICES ASSUME n = 0 PROVE fill = chunks
      BY <1>1, <1>9
    <3>1. \A c \in ChunkIds : c \notin first..(first + n - 1)
      BY <1>4 DEF ChunkIds
    <3>2. fill = [c \in ChunkIds |-> chunks[c]]
      BY <1>7, <3>1
    <3> QED BY <3>2 DEF MemoryInv
  <2>3. n # 0 => Filled(chunks, chunks', d, text, first)
    BY <1>1, <1>6, <1>7, <1>9, <2>1 DEF Filled, n
  <2>4. task' = [task EXCEPT ![r] = IF task[r].op = "ingest" THEN [task[r] EXCEPT !.at = "list"] ELSE Memory!Rest]
    BY <1>1, <1>9 DEF Memory!End, Memory!Step, MemoryInv
  <2> QED BY <1>1, <1>2, <1>4, <2>1, <2>2, <2>3, <2>4 DEF d, text, n
<1> QED BY <1>8, <1>9
\* The least of some chunk ids is one of them.
LEMMA MinIs ==
  ASSUME NEW S, S \subseteq ChunkIds, S # {}
  PROVE  Memory!Min(S) \in S /\ \A y \in S : Memory!Min(S) <= y
<1>1. S \subseteq Nat
  BY DEF ChunkIds
<1>2. \E t \in S : \A u \in S : ~ (<<u, t>> \in OpToRel(<, Nat))
  BY <1>1, NatLessThanWellFounded, WFMin
<1>3. PICK t \in S : \A u \in S : ~ (u < t)
  BY <1>1, <1>2 DEF OpToRel
<1>4. \A u \in S : t <= u
  BY <1>1, <1>3
<1> QED BY <1>4 DEF Memory!Min

-----------------------------------------------------------------------------
(* What a step of call r does, r being at k after it.                      *)

Moves(r, k) == Able(k) /\ task' = [task EXCEPT ![r] = k]
Like(k, j) == k.op = j.op /\ k.doc = j.doc /\ k.text = j.text

Begun(r, k) ==
  /\ Moves(r, k) /\ task[r] = Memory!Rest /\ Memory!BeginWrite(r, k.doc) /\ k.doc \in DocIds
  /\ \/ /\ k.op \in {"create", "ingest"} /\ k.at = "purge" /\ docs[k.doc] = NULL
        /\ docs' = [docs EXCEPT ![k.doc] = k.text]
     \/ k.op = "update" /\ k.at = "write" /\ k.row = docs[k.doc] /\ docs[k.doc] # NULL /\ docs' = docs
     \/ k.op = "delete" /\ k.at = "purge" /\ docs' = docs
  /\ UNCHANGED <<chunks, vectors, embeddings, retired>>

Written(r, k) ==
  LET d == task[r].doc
  IN /\ Moves(r, k) /\ task[r].at = "write"
     /\ \/ k.at = "refresh" /\ Like(k, task[r]) /\ task[r].text = task[r].row /\ docs' = docs
        \/ k.at = "refresh" /\ Like(k, task[r]) /\ docs' = [docs EXCEPT ![d] = task[r].text]
        \/ k = Memory!Rest /\ docs[d] = NULL /\ docs' = docs
     /\ UNCHANGED <<chunks, vectors, embeddings, dirty, retired, indexed, crossed>>

Refreshed(r, k) ==
  LET d == task[r].doc
  IN /\ Moves(r, k) /\ task[r].at = "refresh"
     /\ \/ k = Memory!Rest /\ docs[d] = NULL
        \/ k.at = "purge" /\ k.op = "update" /\ k.doc = d /\ k.text = docs[d] /\ docs[d] # NULL
     /\ UNCHANGED <<docs, chunks, vectors, embeddings, dirty, retired, indexed, crossed>>

Purged(r, k) ==
  LET old == Of(task[r].doc, chunks)
  IN /\ Moves(r, k) /\ task[r].at = "purge" /\ Like(k, task[r])
     /\ k.at = IF task[r].op = "delete" THEN "drop" ELSE "insert"
     /\ chunks' = [c \in ChunkIds |-> IF c \in old THEN NULL ELSE chunks[c]]
     /\ retired' = retired \cup old
     /\ UNCHANGED <<docs, vectors, embeddings, dirty, indexed, crossed>>

Inserted(r, k) ==
  LET d == task[r].doc
      text == task[r].text
  IN /\ Moves(r, k) /\ task[r].at = "insert" /\ d \in DocIds /\ text \in Texts
     /\ \/ k = Memory!Rest /\ (Of(d, chunks) = {} => task[r].op # "ingest")
        \/ k.at = "list" /\ Like(k, task[r]) /\ task[r].op = "ingest"
     /\ \/ chunks' = chunks /\ (Of(d, chunks) # {} \/ Size[text] = 0)
        \/ \E first \in Nat \ {0} : Filled(chunks, chunks', d, text, first)
     /\ UNCHANGED <<docs, vectors, embeddings, dirty, retired, indexed, crossed>>

Dropping(r, k) ==
  /\ Moves(r, k) /\ task[r].at = "drop"
  /\ \/ k = Memory!Rest /\ (docs[task[r].doc] = NULL \/ Of(task[r].doc, chunks) # {})
     \/ k.at = "gone" /\ Like(k, task[r])
  /\ UNCHANGED <<docs, chunks, vectors, embeddings, dirty, retired, indexed, crossed>>

Dropped(r, k) ==
  /\ Moves(r, k) /\ task[r].at = "gone" /\ k = Memory!Rest
  /\ docs' = [docs EXCEPT ![task[r].doc] = NULL]
  /\ UNCHANGED <<chunks, vectors, embeddings, dirty, retired, indexed, crossed>>

Embedding(r, k) ==
  /\ Moves(r, k) /\ task[r] = Memory!Rest /\ k.at = "list" /\ k.op = "embed"
  /\ UNCHANGED <<docs, chunks, vectors, embeddings, dirty, retired, indexed, crossed>>

Listed(r, k) ==
  LET d == task[r].doc
  IN /\ Moves(r, k) /\ task[r].at = "list"
     /\ \/ k = Memory!Rest /\ (docs[d] = NULL \/ Of(d, chunks) = {})
        \/ /\ k.at = "vector" /\ k.doc = d /\ k.queue = Of(d, chunks)
           /\ k.row = chunks[Memory!Min(k.queue)]
     /\ crossed' = IF Memory!Writers(d) \ {r} = {} THEN crossed \ {r} ELSE crossed \cup {r}
     /\ UNCHANGED <<docs, chunks, vectors, embeddings, dirty, retired, indexed>>

Embedded(r, k) ==
  LET c == Memory!Min(task[r].queue)
      row == IF task[r].row # NULL THEN task[r].row ELSE chunks[c]
  IN /\ Moves(r, k) /\ task[r].at = "vector" /\ c \in task[r].queue
     /\ \/ k = Memory!Rest /\ vectors' = vectors
        \/ /\ k.at = "record" /\ Like(k, task[r]) /\ k.queue = task[r].queue
           /\ vectors' = [vectors EXCEPT ![c] = row] /\ row # NULL
     /\ UNCHANGED <<docs, chunks, embeddings, dirty, retired, indexed, crossed>>

Recording(r, k) ==
  LET c == Memory!Min(task[r].queue)
  IN /\ Moves(r, k) /\ task[r].at = "record" /\ c \in task[r].queue
     /\ \/ /\ k.at = "vector" /\ Like(k, task[r]) /\ k.queue = task[r].queue \ {c} /\ k.row = NULL
           /\ indexed' = indexed
        \/ /\ k = Memory!Rest /\ task[r].queue = {c}
           /\ indexed' = IF r \in crossed THEN indexed ELSE indexed \cup {task[r].doc}
     /\ embeddings' = embeddings \cup {c}
     /\ UNCHANGED <<docs, chunks, vectors, dirty, retired, crossed>>

Failed(r, k) ==
  /\ Moves(r, k) /\ k = Memory!Rest
  /\ dirty' = IF r \in Memory!Writers(task[r].doc) THEN dirty \cup {task[r].doc} ELSE dirty
  /\ UNCHANGED <<docs, chunks, vectors, embeddings, retired, indexed, crossed>>

MovesOf(r, k) ==
  \/ Begun(r, k) \/ Written(r, k) \/ Refreshed(r, k) \/ Purged(r, k) \/ Inserted(r, k)
  \/ Dropping(r, k) \/ Dropped(r, k) \/ Embedding(r, k) \/ Listed(r, k) \/ Embedded(r, k)
  \/ Recording(r, k) \/ Failed(r, k)

\* A call that stays at its work keeps its type.
LEMMA AbleAt ==
  ASSUME NEW j, NEW at, Able(j), j.at \notin Embeds, j.at # "idle",
         \/ at = "refresh" /\ j.at = "write"
         \/ at = "list" /\ j.op = "ingest"
         \/ at = "gone" /\ j.at = "drop"
         \/ at = "drop" /\ j.at = "purge" /\ j.op = "delete"
         \/ at = "insert" /\ j.at = "purge" /\ j.op # "delete"
  PROVE  LET k == [j EXCEPT !.at = at] IN Able(k) /\ k.at = at /\ Like(k, j)
<1> DEFINE k == [j EXCEPT !.at = at]
<1>1. /\ k \in Tasks /\ k.at = at /\ k.op = j.op /\ k.doc = j.doc /\ k.text = j.text
      /\ k.queue = j.queue /\ k.row = j.row
  BY DEF Able, Tasks
<1> HIDE DEF k
<1>2. Able(k) /\ k.at = at /\ Like(k, j)
  BY <1>1 DEF Able, Like, Embeds, WriteOps, Tasks
<1> QED BY <1>2 DEF k

LEMMA DocumentMoves ==
  ASSUME MemoryInv, NEW r \in Requests, Memory!Document(r)
  PROVE  \E k : MovesOf(r, k)
<1>0. Able(task[r]) /\ task[r] \in Tasks
  BY DEF MemoryInv
<1>1. ASSUME NEW text \in Texts, NEW op \in {"create", "ingest"}, Memory!Create(r, op, text)
      PROVE  \E k : Begun(r, k)
  <2> DEFINE d == Memory!NextId(docs)
             k == [[[[Memory!Rest EXCEPT !.op = op] EXCEPT !.at = "purge"] EXCEPT !.doc = d] EXCEPT !.text = text]
  <2>1. /\ task[r] = Memory!Rest /\ d \in DocIds /\ docs' = [docs EXCEPT ![d] = text]
        /\ task' = [task EXCEPT ![r] = k] /\ Memory!BeginWrite(r, d)
        /\ UNCHANGED <<chunks, vectors, embeddings, retired>>
    BY <1>1 DEF Memory!Create, Memory!DocIds, DocIds, Memory!store
  <2>2. docs[d] = NULL
    BY <2>1, NextIdIsFree
  <2> HIDE DEF d
  <2>3. k \in Tasks /\ k.op = op /\ k.at = "purge" /\ k.doc = d /\ k.text = text
    BY <2>1 DEF Memory!Rest, Tasks, WriteOps
  <2> HIDE DEF k
  <2>4. Able(k)
    BY <2>1, <2>3 DEF Able, WriteOps, Embeds
  <2>5. Begun(r, k)
    BY <2>1, <2>2, <2>3, <2>4 DEF Begun, Moves
  <2> QED BY <2>5
<1>2. ASSUME NEW d \in DocIds, NEW text \in Texts, Memory!Update(r, d, text)
      PROVE  \E k : Begun(r, k)
  <2> DEFINE k == [[[[[Memory!Rest EXCEPT !.op = "update"] EXCEPT !.at = "write"] EXCEPT !.doc = d]
                      EXCEPT !.text = text] EXCEPT !.row = docs[d]]
  <2>1. /\ task[r] = Memory!Rest /\ docs[d] # NULL /\ docs' = docs
        /\ task' = [task EXCEPT ![r] = k] /\ Memory!BeginWrite(r, d)
        /\ UNCHANGED <<chunks, vectors, embeddings, retired>>
    BY <1>2 DEF Memory!Update, Memory!store
  <2>2. docs[d] \in Texts
    BY <2>1 DEF MemoryInv
  <2>3. k \in Tasks /\ k.op = "update" /\ k.at = "write" /\ k.doc = d /\ k.text = text /\ k.row = docs[d]
    BY <2>2 DEF Memory!Rest, Tasks, WriteOps
  <2> HIDE DEF k
  <2>4. Able(k)
    BY <2>2, <2>3 DEF Able, WriteOps, Embeds
  <2>5. Begun(r, k)
    BY <2>1, <2>3, <2>4 DEF Begun, Moves
  <2> QED BY <2>5
<1>3. ASSUME NEW d \in DocIds, Memory!Delete(r, d)
      PROVE  \E k : Begun(r, k)
  <2> DEFINE k == [[[Memory!Rest EXCEPT !.op = "delete"] EXCEPT !.at = "purge"] EXCEPT !.doc = d]
  <2>1. /\ task[r] = Memory!Rest /\ docs' = docs
        /\ task' = [task EXCEPT ![r] = k] /\ Memory!BeginWrite(r, d)
        /\ UNCHANGED <<chunks, vectors, embeddings, retired>>
    BY <1>3 DEF Memory!Delete, Memory!store
  <2>2. k \in Tasks /\ k.op = "delete" /\ k.at = "purge" /\ k.doc = d
    BY DEF Memory!Rest, Tasks, WriteOps
  <2> HIDE DEF k
  <2>3. Able(k)
    BY <2>2 DEF Able, WriteOps, Embeds
  <2>4. Begun(r, k)
    BY <2>1, <2>2, <2>3 DEF Begun, Moves
  <2> QED BY <2>4
<1>4. ASSUME Memory!UpdateCommit(r)
      PROVE  \E k : Written(r, k)
  <2> DEFINE k == [task[r] EXCEPT !.at = "refresh"]
  <2>1. /\ task[r].at = "write"
        /\ UNCHANGED <<chunks, vectors, embeddings, dirty, retired, indexed, crossed>>
        /\ \/ task' = [task EXCEPT ![r] = k] /\ task[r].text = task[r].row /\ docs' = docs
           \/ task' = [task EXCEPT ![r] = k] /\ docs' = [docs EXCEPT ![task[r].doc] = task[r].text]
           \/ task' = [task EXCEPT ![r] = Memory!Rest] /\ docs[task[r].doc] = NULL /\ docs' = docs
    BY <1>4 DEF Memory!UpdateCommit, Memory!store, Memory!history, Memory!Step, Memory!End, MemoryInv
  <2>2. Able(k) /\ k.at = "refresh" /\ Like(k, task[r])
    BY <1>0, <2>1, AbleAt DEF Embeds
  <2> HIDE DEF k
  <2>3. Written(r, k) \/ Written(r, Memory!Rest)
    BY <2>1, <2>2, RestAble DEF Written, Moves
  <2> QED BY <2>3
<1>5. ASSUME Memory!Refresh(r)
      PROVE  \E k : Refreshed(r, k)
  <2> DEFINE k == [[task[r] EXCEPT !.at = "purge"] EXCEPT !.text = docs[task[r].doc]]
  <2>1. /\ task[r].at = "refresh"
        /\ UNCHANGED <<docs, chunks, vectors, embeddings, dirty, retired, indexed, crossed>>
        /\ \/ task' = [task EXCEPT ![r] = k] /\ docs[task[r].doc] # NULL
           \/ task' = [task EXCEPT ![r] = Memory!Rest] /\ docs[task[r].doc] = NULL
    BY <1>5 DEF Memory!Refresh, Memory!store, Memory!history, Memory!End, MemoryInv
  <2>2. CASE docs[task[r].doc] # NULL
    <3>1. task[r].doc \in DocIds /\ task[r].op = "update" /\ docs[task[r].doc] \in Texts
      BY <1>0, <2>1, <2>2 DEF Able, MemoryInv
    <3>2. /\ k \in Tasks /\ k.at = "purge" /\ k.op = "update" /\ k.doc = task[r].doc
          /\ k.text = docs[task[r].doc]
      BY <1>0, <3>1 DEF Tasks
    <3> HIDE DEF k
    <3>3. Able(k)
      BY <3>1, <3>2 DEF Able, WriteOps, Embeds
    <3>4. Refreshed(r, k)
      BY <2>1, <2>2, <3>2, <3>3 DEF Refreshed, Moves
    <3> QED BY <3>4
  <2>3. CASE docs[task[r].doc] = NULL
    <3>1. Refreshed(r, Memory!Rest)
      BY <2>1, <2>3, RestAble DEF Refreshed, Moves
    <3> QED BY <3>1
  <2> QED BY <2>2, <2>3
<1>6. ASSUME Memory!Purge(r)
      PROVE  \E k : Purged(r, k)
  <2> DEFINE at == IF task[r].op = "delete" THEN "drop" ELSE "insert"
             k == [task[r] EXCEPT !.at = at]
  <2>1. /\ task[r].at = "purge"
        /\ chunks' = [c \in ChunkIds |-> IF c \in Memory!ChunksOf(task[r].doc) THEN NULL ELSE chunks[c]]
        /\ retired' = retired \cup Memory!ChunksOf(task[r].doc)
        /\ UNCHANGED <<docs, vectors, embeddings, dirty, indexed, crossed>>
        /\ task' = [task EXCEPT ![r] = k]
    BY <1>6 DEF Memory!Purge, Memory!store, Memory!Step, MemoryInv, Memory!ChunkIds, ChunkIds
  <2>2. Able(k) /\ k.at = at /\ Like(k, task[r])
    BY <1>0, <2>1, AbleAt DEF Embeds
  <2> HIDE DEF k
  <2>3. Purged(r, k)
    BY <2>1, <2>2, ChunksOfAre DEF Purged, Moves
  <2> QED BY <2>3
<1>7. ASSUME Memory!InsertChunks(r)
      PROVE  \E k : Inserted(r, k)
  <2> DEFINE k == [task[r] EXCEPT !.at = "list"]
             d == task[r].doc
             text == task[r].text
  <2>1. UNCHANGED <<docs, vectors, embeddings, dirty, retired, indexed, crossed>>
    BY <1>7 DEF Memory!InsertChunks, Memory!store, Memory!history
  <2>2. /\ d \in DocIds /\ text \in Texts /\ task[r].at = "insert"
        /\ \/ chunks' = chunks /\ (Of(d, chunks) # {} \/ Size[text] = 0)
           \/ \E first \in Nat \ {0} : Filled(chunks, chunks', d, text, first)
        /\ Of(d, chunks) # {} \/ task' = [task EXCEPT ![r] = IF task[r].op = "ingest" THEN k ELSE Memory!Rest]
        /\ \/ task' = [task EXCEPT ![r] = Memory!Rest]
           \/ task[r].op = "ingest" /\ task' = [task EXCEPT ![r] = k]
    BY <1>7, InsertFills
  <2>3. task[r].op = "ingest" => Able(k) /\ k.at = "list" /\ Like(k, task[r])
    BY <1>0, <2>2, AbleAt DEF Embeds
  <2> HIDE DEF k
  <2>4. CASE task[r].op = "ingest" /\ task' = [task EXCEPT ![r] = k]
    <3>1. Inserted(r, k)
      BY <2>1, <2>2, <2>3, <2>4 DEF Inserted, Moves
    <3> QED BY <3>1
  <2>5. CASE ~ (task[r].op = "ingest" /\ task' = [task EXCEPT ![r] = k])
    <3>1. task' = [task EXCEPT ![r] = Memory!Rest] /\ (Of(d, chunks) = {} => task[r].op # "ingest")
      BY <2>2, <2>5
    <3>2. Inserted(r, Memory!Rest)
      BY <2>1, <2>2, <3>1, RestAble DEF Inserted, Moves
    <3> QED BY <3>2
  <2> QED BY <2>4, <2>5
<1>8. ASSUME Memory!DropLoad(r)
      PROVE  \E k : Dropping(r, k)
  <2> DEFINE k == [task[r] EXCEPT !.at = "gone"]
  <2>1. /\ task[r].at = "drop"
        /\ UNCHANGED <<docs, chunks, vectors, embeddings, dirty, retired, indexed, crossed>>
        /\ \/ task' = [task EXCEPT ![r] = k]
           \/ task' = [task EXCEPT ![r] = Memory!Rest] /\ (docs[task[r].doc] = NULL \/ Memory!ChunksOf(task[r].doc) # {})
    BY <1>8 DEF Memory!DropLoad, Memory!store, Memory!history, Memory!Step, Memory!End, MemoryInv
  <2>2. Able(k) /\ k.at = "gone" /\ Like(k, task[r])
    BY <1>0, <2>1, AbleAt DEF Embeds
  <2> HIDE DEF k
  <2>3. Dropping(r, k) \/ Dropping(r, Memory!Rest)
    BY <2>1, <2>2, RestAble, ChunksOfAre DEF Dropping, Moves
  <2> QED BY <2>3
<1>9. ASSUME Memory!DropCommit(r)
      PROVE  Dropped(r, Memory!Rest)
  BY <1>9, RestAble DEF Dropped, Moves, Memory!DropCommit, Memory!store, Memory!history, Memory!End
<1> QED
  BY <1>1, <1>2, <1>3, <1>4, <1>5, <1>6, <1>7, <1>8, <1>9 DEF Memory!Document, MovesOf, Memory!DocIds, DocIds

LEMMA EmbeddingMoves ==
  ASSUME MemoryInv, NEW r \in Requests, Memory!Embedding(r)
  PROVE  \E k : MovesOf(r, k)
<1>0. Able(task[r]) /\ task[r] \in Tasks
  BY DEF MemoryInv
<1>1. ASSUME NEW d \in DocIds, Memory!Embed(r, d)
      PROVE  \E k : Embedding(r, k)
  <2> DEFINE k == [[[Memory!Rest EXCEPT !.op = "embed"] EXCEPT !.at = "list"] EXCEPT !.doc = d]
  <2>1. /\ task[r] = Memory!Rest /\ task' = [task EXCEPT ![r] = k]
        /\ UNCHANGED <<docs, chunks, vectors, embeddings, dirty, retired, indexed, crossed>>
    BY <1>1 DEF Memory!Embed, Memory!store, Memory!history
  <2>2. k \in Tasks /\ k.op = "embed" /\ k.at = "list" /\ k.doc = d
    BY DEF Memory!Rest, Tasks, WriteOps
  <2> HIDE DEF k
  <2>3. Able(k)
    BY <2>2 DEF Able, WriteOps, Embeds
  <2>4. Embedding(r, k)
    BY <2>1, <2>2, <2>3 DEF Embedding, Moves
  <2> QED BY <2>4
<1>2. ASSUME Memory!ListChunks(r)
      PROVE  \E k : Listed(r, k)
  <2> DEFINE d == task[r].doc
             found == Memory!ChunksOf(d)
             first == CHOOSE c \in found : chunks[c].index = 1
             k == [[[[task[r] EXCEPT !.at = "vector"] EXCEPT !.op = "embed"] EXCEPT !.queue = found]
                     EXCEPT !.row = chunks[first]]
  <2>1. /\ task[r].at = "list"
        /\ crossed' = IF Memory!Writers(d) \ {r} = {} THEN crossed \ {r} ELSE crossed \cup {r}
        /\ UNCHANGED <<docs, chunks, vectors, embeddings, dirty, retired, indexed>>
        /\ \/ task' = [task EXCEPT ![r] = k] /\ found # {}
           \/ task' = [task EXCEPT ![r] = Memory!Rest] /\ (docs[d] = NULL \/ found = {})
    BY <1>2 DEF Memory!ListChunks, Memory!store, Memory!End, MemoryInv
  <2>2. found = Of(d, chunks) /\ d \in DocIds
    BY <1>0, <2>1, ChunksOfAre DEF Able
  <2>3. CASE task' = [task EXCEPT ![r] = k] /\ found # {}
    <3>1. PICK f \in Nat, text \in Texts : Lie(d, chunks, f, text)
      BY <2>2, <2>3 DEF MemoryInv, Laid
    <3>2. found \subseteq ChunkIds /\ Size[text] \in Nat
      BY <2>2, SizeAssumption DEF Of
    <3>3. found = f..(f + Size[text] - 1)
      BY <2>2, <3>1 DEF Lie
    <3>4. f \in found
      <4>1. PICK c : c \in found
        BY <2>3
      <4> QED BY <3>2, <3>3, <4>1
    <3>5. \A c \in found : chunks[c] \in ChunkRows /\ (chunks[c].index = 1 <=> c = f)
      <4>1. \A c \in found : chunks[c] = Piece(d, c - f + 1, text) /\ chunks[c] # NULL /\ c \in Int
        BY <2>2, <3>1, <3>3 DEF Lie, Of
      <4>2. \A c \in found : chunks[c].index = c - f + 1
        <5> SUFFICES ASSUME NEW c \in found PROVE chunks[c].index = c - f + 1
          OBVIOUS
        <5>1. chunks[c] = [document_id |-> d, index |-> c - f + 1, text |-> text]
          BY <4>1 DEF Piece
        <5> QED BY <5>1
      <4>3. \A c \in found : chunks[c].index = 1 <=> c = f
        BY <4>1, <4>2
      <4> QED BY <2>2, <4>1, <4>3 DEF MemoryInv, Of
    <3>6. first = f
      BY <3>4, <3>5
    <3>7. Memory!Min(found) = f
      <4>1. Memory!Min(found) \in found /\ \A y \in found : Memory!Min(found) <= y
        BY <2>3, <3>2, MinIs
      <4>2. Memory!Min(found) \in f..(f + Size[text] - 1)
        BY <3>3, <4>1
      <4> QED BY <3>2, <3>4, <4>1, <4>2
    <3>8. chunks[first] \in ChunkRows
      BY <3>4, <3>5, <3>6
    <3> HIDE DEF first, found
    <3>9. /\ k \in Tasks /\ k.at = "vector" /\ k.op = "embed" /\ k.doc = d /\ k.queue = found
          /\ k.row = chunks[first]
      BY <1>0, <3>2, <3>8 DEF Tasks
    <3> HIDE DEF k
    <3>10. Able(k)
      BY <2>2, <2>3, <3>8, <3>9 DEF Able, Embeds
    <3>11. k.row = chunks[Memory!Min(k.queue)]
      BY <3>6, <3>7, <3>9
    <3>12. Listed(r, k)
      BY <2>1, <2>2, <2>3, <3>9, <3>10, <3>11 DEF Listed, Moves
    <3> QED BY <3>12
  <2>4. CASE task' = [task EXCEPT ![r] = Memory!Rest] /\ (docs[d] = NULL \/ found = {})
    <3>1. Listed(r, Memory!Rest)
      BY <2>1, <2>2, <2>4, RestAble DEF Listed, Moves
    <3> QED BY <3>1
  <2> QED BY <2>1, <2>3, <2>4
<1>3. ASSUME Memory!UpsertVector(r)
      PROVE  \E k : Embedded(r, k)
  <2> DEFINE c == Memory!Min(task[r].queue)
             row == IF task[r].row # NULL THEN task[r].row ELSE chunks[c]
             k == [task[r] EXCEPT !.at = "record"]
  <2>1. /\ task[r].at = "vector"
        /\ UNCHANGED <<docs, chunks, embeddings, dirty, retired, indexed, crossed>>
        /\ \/ task' = [task EXCEPT ![r] = k] /\ vectors' = [vectors EXCEPT ![c] = row] /\ row # NULL
           \/ task' = [task EXCEPT ![r] = Memory!Rest] /\ vectors' = vectors
    BY <1>3 DEF Memory!UpsertVector, Memory!history, Memory!Step, Memory!End, MemoryInv
  <2>2. /\ task[r].queue # {} /\ task[r].queue \subseteq ChunkIds /\ task[r].op = "embed" /\ task[r].doc \in DocIds
        /\ task[r].row \in ChunkRows \cup {NULL}
    BY <1>0, <2>1 DEF Able, Tasks, Embeds
  <2>3. c \in task[r].queue
    BY <2>2, MinIs
  <2>4. /\ k \in Tasks /\ k.at = "record" /\ Like(k, task[r]) /\ k.queue = task[r].queue /\ k.row = task[r].row
    BY <1>0 DEF Tasks, Like
  <2> HIDE DEF k, c
  <2>5. Able(k)
    BY <2>2, <2>4 DEF Able, Embeds, Like
  <2>6. Embedded(r, k) \/ Embedded(r, Memory!Rest)
    BY <2>1, <2>3, <2>4, <2>5, RestAble DEF Embedded, Moves, c
  <2> QED BY <2>6
<1>4. ASSUME Memory!UpsertRecord(r)
      PROVE  \E k : Recording(r, k)
  <2> DEFINE c == Memory!Min(task[r].queue)
             rest == task[r].queue \ {c}
             k == [[[task[r] EXCEPT !.at = "vector"] EXCEPT !.queue = rest] EXCEPT !.row = NULL]
  <2>1. /\ task[r].at = "record" /\ embeddings' = embeddings \cup {c}
        /\ UNCHANGED <<docs, chunks, vectors, dirty, retired, crossed>>
        /\ \/ task' = [task EXCEPT ![r] = k] /\ rest # {} /\ indexed' = indexed
           \/ /\ task' = [task EXCEPT ![r] = Memory!Rest] /\ rest = {}
              /\ indexed' = IF r \in crossed THEN indexed ELSE indexed \cup {task[r].doc}
    BY <1>4 DEF Memory!UpsertRecord, Memory!End, Memory!Indexed, MemoryInv
  <2>2. /\ task[r].queue # {} /\ task[r].queue \subseteq ChunkIds /\ task[r].op = "embed" /\ task[r].doc \in DocIds
    BY <1>0, <2>1 DEF Able, Tasks, Embeds
  <2>3. c \in task[r].queue /\ (rest = {} => task[r].queue = {c})
    <3>1. c \in task[r].queue
      BY <2>2, MinIs
    <3> QED BY <3>1
  <2>4. rest \subseteq ChunkIds
    BY <2>2
  <2>5. /\ k \in Tasks /\ k.at = "vector" /\ Like(k, task[r]) /\ k.queue = rest /\ k.row = NULL
    BY <1>0, <2>4 DEF Tasks, Like
  <2> HIDE DEF k
  <2>6. CASE task' = [task EXCEPT ![r] = k] /\ rest # {} /\ indexed' = indexed
    <3>1. Able(k)
      BY <2>2, <2>5, <2>6 DEF Able, Embeds, Like
    <3>2. Recording(r, k)
      BY <2>1, <2>3, <2>5, <2>6, <3>1 DEF Recording, Moves
    <3> QED BY <3>2
  <2>7. CASE ~ (task' = [task EXCEPT ![r] = k] /\ rest # {} /\ indexed' = indexed)
    <3>1. Recording(r, Memory!Rest)
      BY <2>1, <2>3, <2>7, RestAble DEF Recording, Moves
    <3> QED BY <3>1
  <2> QED BY <2>6, <2>7
<1> QED
  BY <1>1, <1>2, <1>3, <1>4 DEF Memory!Embedding, MovesOf, Memory!DocIds, DocIds

\* Every step of memory-service is one of those above, or a restart.
LEMMA MemoryMoves ==
  ASSUME MemoryInv, Memory!Next
  PROVE  Memory!Restart \/ \E r \in Requests : \E k : MovesOf(r, k)
<1>1. ASSUME NEW r \in Requests, Memory!Fail(r) PROVE Failed(r, Memory!Rest)
  BY <1>1, RestAble DEF Memory!Fail, Failed, Moves, Memory!End, Memory!store
<1> QED BY <1>1, DocumentMoves, EmbeddingMoves DEF Memory!Next, MovesOf
-----------------------------------------------------------------------------
(* Types and layout                                                        *)

LEMMA PurgedChunks ==
  ASSUME MemoryInv, NEW d \in DocIds,
         chunks' = [c \in ChunkIds |-> IF c \in Of(d, chunks) THEN NULL ELSE chunks[c]]
  PROVE  /\ chunks' \in [ChunkIds -> ChunkRows \cup {NULL}]
         /\ Of(d, chunks') = {}
         /\ \A e \in DocIds \ {d} : Same(e, chunks, chunks')
<1>1. chunks' \in [ChunkIds -> ChunkRows \cup {NULL}]
  BY DEF MemoryInv
<1>2. Of(d, chunks') = {}
  BY DEF Of
<1>3. ASSUME NEW e \in DocIds \ {d} PROVE Same(e, chunks, chunks')
  BY DEF Of, Same
<1> QED BY <1>1, <1>2, <1>3

LEMMA FilledChunks ==
  ASSUME MemoryInv, NEW d \in DocIds, NEW text \in Texts, NEW first \in Nat \ {0},
         Filled(chunks, chunks', d, text, first)
  PROVE  /\ chunks' \in [ChunkIds -> ChunkRows \cup {NULL}]
         /\ Lie(d, chunks', first, text)
         /\ \A e \in DocIds \ {d} : Same(e, chunks, chunks')
<1> DEFINE n == Size[text]
<1>0. n \in Nat
  BY SizeAssumption
<1>1. /\ Of(d, chunks) = {}
      /\ \A c \in first..(first + n - 1) : c \in ChunkIds /\ chunks[c] = NULL
      /\ chunks' = [c \in ChunkIds |-> IF c \in first..(first + n - 1)
                                       THEN Piece(d, c - first + 1, text) ELSE chunks[c]]
  BY DEF Filled
<1> HIDE DEF n
<1>2. \A c \in first..(first + n - 1) :
         Piece(d, c - first + 1, text) \in ChunkRows /\ Piece(d, c - first + 1, text).document_id = d
  BY DEF Piece, ChunkRows
<1>3. chunks' \in [ChunkIds -> ChunkRows \cup {NULL}]
  BY <1>1, <1>2 DEF MemoryInv
<1>4. Of(d, chunks') = first..(first + n - 1)
  <2>1. ASSUME NEW c \in first..(first + n - 1) PROVE c \in Of(d, chunks')
    BY <1>1, <1>2, ChunkRowIsNotNull DEF Of
  <2>2. ASSUME NEW c \in Of(d, chunks') PROVE c \in first..(first + n - 1)
    BY <1>1 DEF Of
  <2> QED BY <2>1, <2>2
<1>5. Lie(d, chunks', first, text)
  BY <1>1, <1>4 DEF Lie, n
<1>6. ASSUME NEW e \in DocIds \ {d} PROVE Same(e, chunks, chunks')
  <2>1. ASSUME NEW c \in ChunkIds
        PROVE  /\ c \in Of(e, chunks) <=> c \in Of(e, chunks')
               /\ c \in Of(e, chunks) => chunks'[c] = chunks[c]
    BY <1>1, <1>2 DEF Of
  <2> QED BY <2>1 DEF Of, Same
<1> QED BY <1>3, <1>5, <1>6

LEMMA MemoryInit == Memory!Init => MemoryInv
<1> SUFFICES ASSUME Memory!Init PROVE MemoryInv
  OBVIOUS
<1>1. /\ docs = [d \in DocIds |-> NULL] /\ chunks = [c \in ChunkIds |-> NULL]
      /\ task = [r \in Requests |-> Memory!Rest]
  BY DEF Memory!Init, Memory!DocIds, Memory!ChunkIds, DocIds, ChunkIds
<1>2. \A d : Of(d, chunks) = {}
  BY <1>1 DEF Of
<1> QED BY <1>1, <1>2, RestAble DEF MemoryInv, Able, Laid

\* What a call changes are rows of its document, and only while it writes it.
OnlyItsOwn(r) ==
  LET d == task[r].doc
  IN /\ \A e \in DocIds \ {d} : Same(e, chunks, chunks')
     /\ task[r].op \notin WriteOps => chunks' = chunks

LEMMA MoveKeepsType ==
  ASSUME MemoryInv, NEW r \in Requests, NEW k, MovesOf(r, k)
  PROVE  MemoryInv' /\ OnlyItsOwn(r)
<1>0. Able(task[r]) /\ Able(k) /\ task' = [task EXCEPT ![r] = k]
  BY DEF MemoryInv, MovesOf, Begun, Written, Refreshed, Purged, Inserted, Dropping, Dropped, Embedding,
         Listed, Embedded, Recording, Failed, Moves
<1>1. task' \in [Requests -> Tasks] /\ \A q \in Requests : Able(task'[q])
  BY <1>0 DEF MemoryInv, Able
<1>2. docs' \in [DocIds -> Texts \cup {NULL}]
  <2>1. CASE docs' = docs
    BY <2>1 DEF MemoryInv
  <2>2. CASE Begun(r, k) /\ docs' # docs
    <3>1. k.text \in Texts /\ docs' = [docs EXCEPT ![k.doc] = k.text]
      BY <1>0, <2>2 DEF Begun, Able
    <3> QED BY <3>1 DEF MemoryInv
  <2>3. CASE Written(r, k) /\ docs' # docs
    <3>1. task[r].text \in Texts /\ docs' = [docs EXCEPT ![task[r].doc] = task[r].text]
      BY <1>0, <2>3 DEF Written, Able
    <3> QED BY <3>1 DEF MemoryInv
  <2>4. CASE Dropped(r, k)
    BY <2>4 DEF Dropped, MemoryInv
  <2> QED BY <2>1, <2>2, <2>3, <2>4
          DEF MovesOf, Refreshed, Purged, Inserted, Dropping, Embedding, Listed, Embedded, Recording, Failed
<1>3. /\ chunks' \in [ChunkIds -> ChunkRows \cup {NULL}]
      /\ \A d \in DocIds : Laid(d, chunks')
      /\ OnlyItsOwn(r)
  <2>1. CASE chunks' = chunks
    BY <2>1 DEF MemoryInv, OnlyItsOwn, Same
  <2>2. CASE Purged(r, k)
    <3>1. task[r].doc \in DocIds /\ task[r].op \in WriteOps
      BY <1>0, <2>2 DEF Purged, Able
    <3>2. /\ chunks' \in [ChunkIds -> ChunkRows \cup {NULL}]
          /\ Of(task[r].doc, chunks') = {}
          /\ \A e \in DocIds \ {task[r].doc} : Same(e, chunks, chunks')
      BY <2>2, <3>1, PurgedChunks DEF Purged
    <3>3. ASSUME NEW d \in DocIds PROVE Laid(d, chunks')
      <4>1. CASE d = task[r].doc
        BY <3>2, <4>1 DEF Laid
      <4>2. CASE d # task[r].doc
        BY <3>2, <4>2, SameLaid DEF MemoryInv
      <4> QED BY <4>1, <4>2
    <3> QED BY <3>1, <3>2, <3>3 DEF OnlyItsOwn
  <2>3. CASE Inserted(r, k) /\ chunks' # chunks
    <3>1. PICK first \in Nat \ {0} :
             Filled(chunks, chunks', task[r].doc, task[r].text, first)
      BY <2>3 DEF Inserted
    <3>2. task[r].doc \in DocIds /\ task[r].op \in WriteOps /\ task[r].text \in Texts
      BY <1>0, <2>3 DEF Inserted, Able, WriteOps
    <3>3. /\ chunks' \in [ChunkIds -> ChunkRows \cup {NULL}]
          /\ Lie(task[r].doc, chunks', first, task[r].text)
          /\ \A e \in DocIds \ {task[r].doc} : Same(e, chunks, chunks')
      BY <3>1, <3>2, FilledChunks
    <3>4. ASSUME NEW d \in DocIds PROVE Laid(d, chunks')
      <4>1. CASE d = task[r].doc
        BY <3>2, <3>3, <4>1 DEF Laid
      <4>2. CASE d # task[r].doc
        BY <3>3, <4>2, SameLaid DEF MemoryInv
      <4> QED BY <4>1, <4>2
    <3> QED BY <3>2, <3>3, <3>4 DEF OnlyItsOwn
  <2> QED BY <2>1, <2>2, <2>3
          DEF MovesOf, Begun, Written, Refreshed, Dropping, Dropped, Embedding, Listed, Embedded, Recording, Failed
<1> QED BY <1>1, <1>2, <1>3 DEF MemoryInv

LEMMA RestartKeepsType == MemoryInv /\ Memory!Restart => MemoryInv'
BY RestAble DEF Memory!Restart, MemoryInv, Able

\* In every reachable state of memory-service, and over each of its steps.
LEMMA MemoryAlways == Spec => [](part = "memory" => MemoryInv)
<1> DEFINE Inv == part = "memory" => MemoryInv
<1>1. Init => Inv
  BY MemoryInit DEF Init
<1>2. Inv /\ [Next]_vars => Inv'
  <2> SUFFICES ASSUME Inv, [Next]_vars, part' = "memory" PROVE MemoryInv'
    OBVIOUS
  <2>1. CASE UNCHANGED <<s1, s2, s3, s4, s5, s6, s7, s8, s9>>
    BY <2>1, MemoryStep DEF MemoryInv
  <2> QED BY <2>1, MemoryStep, MemoryMoves, MoveKeepsType, RestartKeepsType
<1> QED BY <1>1, <1>2, PTL DEF Spec

\* The rows of a document that has chunks are those of one text, each once.
LEMMA RowsOfText ==
  ASSUME MemoryInv, NEW d \in DocIds, NEW first \in Nat, NEW text \in Texts, NEW cs, Lie(d, cs, first, text)
  PROVE  /\ {cs[c] : c \in Of(d, cs)} = Memory!chunk_text(d, text)
         /\ \A b, c \in Of(d, cs) : cs[b] = cs[c] => b = c
<1> DEFINE n == Size[text]
<1>1. n \in Nat /\ Memory!chunk_text(d, text) = {Piece(d, i, text) : i \in 1..n}
  BY SizeAssumption, TextRows
<1>2. Of(d, cs) = first..(first + n - 1) /\ \A c \in Of(d, cs) : cs[c] = Piece(d, c - first + 1, text)
  BY DEF Lie
<1> HIDE DEF n
<1>3. ASSUME NEW i \in 1..n PROVE Piece(d, i, text) \in {cs[c] : c \in Of(d, cs)}
  <2>1. first + i - 1 \in Of(d, cs) /\ (first + i - 1) - first + 1 = i
    BY <1>1, <1>2
  <2> QED BY <1>2, <2>1
<1>4. ASSUME NEW c \in Of(d, cs) PROVE c - first + 1 \in 1..n
  BY <1>1, <1>2
<1>5. {cs[c] : c \in Of(d, cs)} = {Piece(d, i, text) : i \in 1..n}
  BY <1>2, <1>3, <1>4
<1>6. ASSUME NEW b \in Of(d, cs), NEW c \in Of(d, cs), cs[b] = cs[c] PROVE b = c
  <2>1. Piece(d, b - first + 1, text).index = Piece(d, c - first + 1, text).index
    BY <1>2, <1>6
  <2>2. b - first + 1 = c - first + 1
    BY <2>1 DEF Piece
  <2> QED BY <1>1, <1>2, <2>2
<1> QED BY <1>1, <1>5, <1>6

\* DocumentService rebuilds chunks in two commits: however calls interleave or stop, the
\* chunks of a document are those of one of its texts, each once, or none.
THEOREM OneTextPerDocumentHolds == Spec => []OneTextPerDocument
<1>1. (part = "memory" => MemoryInv) => OneTextPerDocument
  <2> SUFFICES ASSUME MemoryInv, NEW d \in DocIds
               PROVE  /\ Memory!ChunksOf(d) # {} => \E text \in Texts : Memory!Cut(d) = Memory!chunk_text(d, text)
                      /\ Memory!Cardinality(Memory!Cut(d)) = Memory!Cardinality(Memory!ChunksOf(d))
    BY DEF OneTextPerDocument, Memory!OneTextPerDocument, Memory!DocIds, DocIds
  <2> DEFINE rows == {chunks[c] : c \in Of(d, chunks)}
             f == [c \in Of(d, chunks) |-> chunks[c]]
  <2>1. Memory!Cut(d) = rows /\ Memory!ChunksOf(d) = Of(d, chunks)
    BY ChunksOfAre DEF Memory!Cut
  <2>2. Of(d, chunks) # {} => \E first \in Nat, text \in Texts : Lie(d, chunks, first, text)
    BY DEF MemoryInv, Laid
  <2>3. Of(d, chunks) # {} => \E text \in Texts : rows = Memory!chunk_text(d, text)
    BY <2>2, RowsOfText
  <2>4. \A b, c \in Of(d, chunks) : chunks[b] = chunks[c] => b = c
    BY <2>2, RowsOfText
  <2>5. IsFiniteSet(Of(d, chunks))
    <3>1. IsFiniteSet(ChunkIds)
      BY BoundAssumption, FS_Interval DEF ChunkIds
    <3> QED BY <3>1, FS_Subset DEF Of
  <2>6. f \in Surjection(Of(d, chunks), rows)
    BY DEF Surjection
  <2>7. f \in Injection(Of(d, chunks), rows)
    BY <2>4 DEF Injection, IsInjective
  <2>8. Cardinality(rows) = Cardinality(Of(d, chunks))
    BY <2>5, <2>6, <2>7, FS_Surjection
  <2>9. \A S : Memory!Cardinality(S) = Cardinality(S)
    BY DEF Memory!Cardinality, Cardinality
  <2> QED BY <2>1, <2>3, <2>8, <2>9
<1> QED BY <1>1, MemoryAlways, PTL
-----------------------------------------------------------------------------
(* Vectors                                                                 *)

\* What a call that embeds has before it: chunks there are, and the row of the first.
Holds(k, cs, gone) ==
  k.at \in Embeds =>
    /\ \A c \in k.queue \ gone : cs[c] # NULL
    /\ k.at = "vector" /\ k.row # NULL /\ Memory!Min(k.queue) \notin gone =>
         k.row = cs[Memory!Min(k.queue)]

VectorInv ==
  /\ vectors \in [ChunkIds -> ChunkRows \cup {NULL}]
  /\ \A c \in ChunkIds \ retired : vectors[c] # NULL => chunks[c] # NULL /\ vectors[c] = chunks[c]
  /\ \A r \in Requests : Holds(task[r], chunks, retired)

\* A chunk changes only by going, and its id is remembered then.
LEMMA ChunksPersist ==
  ASSUME MemoryInv, NEW r \in Requests, NEW k, MovesOf(r, k)
  PROVE  /\ retired \subseteq retired'
         /\ \A c \in ChunkIds \ retired' : chunks[c] # NULL => chunks'[c] = chunks[c]
<1>1. CASE chunks' = chunks /\ retired' = retired
  BY <1>1
<1>2. CASE Purged(r, k)
  <2>1. /\ chunks' = [c \in ChunkIds |-> IF c \in Of(task[r].doc, chunks) THEN NULL ELSE chunks[c]]
        /\ retired' = retired \cup Of(task[r].doc, chunks)
    BY <1>2 DEF Purged
  <2> QED BY <2>1
<1>3. CASE Inserted(r, k) /\ chunks' # chunks
  <2>1. retired' = retired
    BY <1>3 DEF Inserted
  <2>2. PICK first \in Nat \ {0} : Filled(chunks, chunks', task[r].doc, task[r].text, first)
    BY <1>3 DEF Inserted
  <2>3. \A c \in ChunkIds : chunks[c] # NULL => chunks'[c] = chunks[c]
    BY <2>2 DEF Filled
  <2> QED BY <2>1, <2>3
<1> QED BY <1>1, <1>2, <1>3
        DEF MovesOf, Begun, Written, Refreshed, Inserted, Dropping, Dropped, Embedding, Listed, Embedded,
            Recording, Failed

LEMMA HoldsOn ==
  ASSUME MemoryInv, NEW r \in Requests, NEW k, MovesOf(r, k), NEW j, Able(j), Holds(j, chunks, retired)
  PROVE  Holds(j, chunks', retired')
<1> SUFFICES ASSUME j.at \in Embeds PROVE Holds(j, chunks', retired')
  BY DEF Holds
<1>1. /\ retired \subseteq retired'
      /\ \A c \in ChunkIds \ retired' : chunks[c] # NULL => chunks'[c] = chunks[c]
  BY ChunksPersist
<1>2. j.queue \subseteq ChunkIds /\ j.queue # {}
  BY DEF Able, Tasks
<1>3. Memory!Min(j.queue) \in j.queue
  BY <1>2, MinIs
<1>4. \A c \in j.queue \ retired' : chunks[c] # NULL /\ chunks'[c] = chunks[c]
  BY <1>1, <1>2 DEF Holds
<1> QED BY <1>1, <1>3, <1>4 DEF Holds

LEMMA MoveKeepsVectors ==
  ASSUME MemoryInv, VectorInv, NEW r \in Requests, NEW k, MovesOf(r, k)
  PROVE  VectorInv'
<1>0. Able(task[r]) /\ Able(k) /\ task' = [task EXCEPT ![r] = k] /\ \A q \in Requests : Able(task[q])
  BY DEF MemoryInv, MovesOf, Begun, Written, Refreshed, Purged, Inserted, Dropping, Dropped, Embedding,
         Listed, Embedded, Recording, Failed, Moves
<1>1. /\ retired \subseteq retired'
      /\ \A c \in ChunkIds \ retired' : chunks[c] # NULL => chunks'[c] = chunks[c]
  BY ChunksPersist
<1>2. Holds(k, chunks', retired')
  <2>1. CASE k.at \notin Embeds
    BY <2>1 DEF Holds
  <2>2. CASE Listed(r, k) /\ k.at \in Embeds
    <3>1. /\ k.queue = Of(task[r].doc, chunks) /\ k.row = chunks[Memory!Min(k.queue)]
          /\ chunks' = chunks /\ retired' = retired
      BY <2>2, RestAble DEF Listed, Embeds
    <3> QED BY <3>1 DEF Holds, Of
  <2>3. CASE Embedded(r, k) /\ k.at \in Embeds
    <3>1. /\ k.queue = task[r].queue /\ k.at = "record" /\ task[r].at = "vector"
          /\ chunks' = chunks /\ retired' = retired
      BY <2>3, RestAble DEF Embedded, Embeds
    <3>2. Holds(task[r], chunks, retired)
      BY DEF VectorInv
    <3> QED BY <3>1, <3>2 DEF Holds, Embeds
  <2>4. CASE Recording(r, k) /\ k.at \in Embeds
    <3>1. /\ k.queue \subseteq task[r].queue /\ k.row = NULL /\ task[r].at = "record"
          /\ chunks' = chunks /\ retired' = retired
      BY <2>4, RestAble DEF Recording, Embeds
    <3>2. Holds(task[r], chunks, retired)
      BY DEF VectorInv
    <3> QED BY <3>1, <3>2 DEF Holds, Embeds
  <2>5. ~ Failed(r, k) \/ k.at \notin Embeds
    BY RestAble DEF Failed, Embeds
  <2> QED BY <2>1, <2>2, <2>3, <2>4, <2>5, RestAble
          DEF MovesOf, Begun, Written, Refreshed, Purged, Inserted, Dropping, Dropped, Embedding, Embeds
<1>3. ASSUME NEW q \in Requests PROVE Holds(task'[q], chunks', retired')
  <2>1. CASE q = r
    BY <1>0, <1>2, <2>1 DEF MemoryInv
  <2>2. CASE q # r
    <3>1. task'[q] = task[q] /\ Able(task[q]) /\ Holds(task[q], chunks, retired)
      BY <1>0, <2>2 DEF MemoryInv, VectorInv
    <3> QED BY <3>1, HoldsOn
  <2> QED BY <2>1, <2>2
<1>4. /\ vectors' \in [ChunkIds -> ChunkRows \cup {NULL}]
      /\ \A c \in ChunkIds \ retired' : vectors'[c] # NULL => chunks'[c] # NULL /\ vectors'[c] = chunks'[c]
  <2>1. CASE vectors' = vectors
    BY <1>1, <2>1 DEF VectorInv
  <2>2. CASE Embedded(r, k) /\ vectors' # vectors
    <3> DEFINE b == Memory!Min(task[r].queue)
               row == IF task[r].row # NULL THEN task[r].row ELSE chunks[b]
    <3>1. /\ vectors' = [vectors EXCEPT ![b] = row] /\ row # NULL /\ b \in task[r].queue
          /\ chunks' = chunks /\ retired' = retired /\ task[r].at = "vector"
      BY <2>2 DEF Embedded
    <3>2. task[r].queue \subseteq ChunkIds /\ task[r].row \in ChunkRows \cup {NULL}
      BY <1>0, <3>1 DEF Able, Tasks, Embeds
    <3>3. row \in ChunkRows
      BY <3>1, <3>2 DEF MemoryInv
    <3>4. b \notin retired => chunks[b] # NULL /\ row = chunks[b]
      BY <3>1 DEF VectorInv, Holds, Embeds
    <3> HIDE DEF row, b
    <3> QED BY <3>1, <3>2, <3>3, <3>4 DEF VectorInv
  <2> QED BY <2>1, <2>2
          DEF MovesOf, Begun, Written, Refreshed, Purged, Inserted, Dropping, Dropped, Embedding, Listed,
              Recording, Failed
<1> QED BY <1>3, <1>4 DEF VectorInv

LEMMA VectorInit == Memory!Init => VectorInv
BY RestAble DEF Memory!Init, VectorInv, Holds, Embeds, Memory!ChunkIds, ChunkIds

LEMMA RestartKeepsVectors == MemoryInv /\ VectorInv /\ Memory!Restart => VectorInv'
BY RestAble DEF Memory!Restart, VectorInv, Holds, Embeds, Memory!ChunkIds, ChunkIds

LEMMA VectorsAlways == Spec => [](part = "memory" => VectorInv)
<1> DEFINE Types == part = "memory" => MemoryInv
           Inv == part = "memory" => VectorInv
<1>1. Init => Inv
  BY VectorInit DEF Init
<1>2. Types /\ Inv /\ [Next]_vars => Inv'
  <2> SUFFICES ASSUME Types, Inv, [Next]_vars, part' = "memory" PROVE VectorInv'
    OBVIOUS
  <2>1. CASE UNCHANGED <<s1, s2, s3, s4, s5, s6, s7, s8, s9>>
    BY <2>1, MemoryStep DEF VectorInv
  <2> QED BY <2>1, MemoryStep, MemoryMoves, MoveKeepsVectors, RestartKeepsVectors
<1> QED BY <1>1, <1>2, MemoryAlways, PTL DEF Spec

\* VectorStore keeps vectors under chunk ids and nothing removes them: the vector of a
\* chunk is its own, unless its id was that of a chunk since deleted.
THEOREM VectorsOfLiveChunksHolds == Spec => []VectorsOfLiveChunks
<1>1. (part = "memory" => MemoryInv) /\ (part = "memory" => VectorInv) => VectorsOfLiveChunks
  BY DEF VectorsOfLiveChunks, Memory!VectorsOfLiveChunks, Memory!Used, MemoryInv, VectorInv
<1> QED BY <1>1, MemoryAlways, VectorsAlways, PTL

-----------------------------------------------------------------------------
(* The chunks of the present text                                          *)

Writes(d) == {r \in Requests : task[r].doc = d /\ task[r].op \in WriteOps}

\* The chunks of d are those of the text it has.
Settled(d, ds, cs) ==
  IF ds[d] = NULL THEN Of(d, cs) = {}
  ELSE {cs[c] : c \in Of(d, cs)} = Memory!chunk_text(d, ds[d])

\* What a call knows that is alone in writing its document.
Current(k, ds, cs) ==
  /\ k.at = "write" => ds[k.doc] # NULL /\ k.row = ds[k.doc]
  /\ k.at = "refresh" => ds[k.doc] # NULL
  /\ k.at = "insert" \/ (k.at = "purge" /\ k.op # "delete") => ds[k.doc] = k.text
  /\ k.at \in {"insert", "drop", "gone"} => Of(k.doc, cs) = {}
  /\ k.at = "list" => Settled(k.doc, ds, cs)

CleanInv ==
  \A d \in DocIds \ dirty :
    /\ \A q, r \in Writes(d) : q = r
    /\ Writes(d) = {} => Settled(d, docs, chunks)
    /\ \A r \in Writes(d) : Current(task[r], docs, chunks)

LEMMA WritersAreWrites == \A d : Memory!Writers(d) = Writes(d)
BY DEF Memory!Writers, Writes, WriteOps

LEMMA WritesMove ==
  ASSUME MemoryInv, NEW r \in Requests, NEW k, Moves(r, k), NEW d
  PROVE  /\ Writes(d)' = (Writes(d) \ {r}) \cup (IF k.doc = d /\ k.op \in WriteOps THEN {r} ELSE {})
         /\ task'[r] = k /\ \A q \in Requests \ {r} : task'[q] = task[q]
<1>1. task'[r] = k /\ \A q \in Requests \ {r} : task'[q] = task[q]
  BY DEF MemoryInv, Moves
<1> QED BY <1>1 DEF Writes

LEMMA SameSettled ==
  ASSUME NEW d, NEW ds, NEW es, NEW cs, NEW bs, Same(d, cs, bs), es[d] = ds[d], Settled(d, ds, cs)
  PROVE  Settled(d, es, bs)
<1>1. {bs[c] : c \in Of(d, bs)} = {cs[c] : c \in Of(d, cs)}
  BY DEF Same
<1> QED BY <1>1 DEF Settled, Same

\* A call goes on writing, or ends with nothing to be done.
LEMMA CleanStep ==
  ASSUME MemoryInv, CleanInv, NEW r \in Requests, NEW k, Moves(r, k), OnlyItsOwn(r),
         \A d \in DocIds : d # task[r].doc => docs'[d] = docs[d],
         task[r].op \notin WriteOps => docs' = docs,
         dirty \subseteq dirty',
         k.op \in WriteOps => task[r].op \in WriteOps /\ k.doc = task[r].doc,
         task[r].op \in WriteOps /\ task[r].doc \notin dirty' /\ Current(task[r], docs, chunks) =>
           IF k.op \in WriteOps THEN Current(k, docs', chunks')
           ELSE Settled(task[r].doc, docs', chunks')
  PROVE  CleanInv'
<1> SUFFICES ASSUME NEW d \in DocIds \ dirty'
             PROVE  /\ \A p, q \in Writes(d)' : p = q
                    /\ Writes(d)' = {} => Settled(d, docs', chunks')
                    /\ \A q \in Writes(d)' : Current(task'[q], docs', chunks')
  BY DEF CleanInv
<1>1. /\ Writes(d)' = (Writes(d) \ {r}) \cup (IF k.doc = d /\ k.op \in WriteOps THEN {r} ELSE {})
      /\ task'[r] = k /\ \A q \in Requests \ {r} : task'[q] = task[q]
  BY WritesMove
<1>2. /\ \A p, q \in Writes(d) : p = q
      /\ Writes(d) = {} => Settled(d, docs, chunks)
      /\ \A q \in Writes(d) : Current(task[q], docs, chunks)
  BY DEF CleanInv
<1>3. CASE r \in Writes(d)
  <2>1. Writes(d) = {r} /\ task[r].doc = d /\ task[r].op \in WriteOps /\ Current(task[r], docs, chunks)
    BY <1>2, <1>3 DEF Writes
  <2>2. CASE k.op \in WriteOps
    <3>1. Writes(d)' = {r}
      BY <1>1, <2>1, <2>2
    <3>2. Current(k, docs', chunks')
      BY <2>1, <2>2
    <3> QED BY <1>1, <3>1, <3>2
  <2>3. CASE k.op \notin WriteOps
    <3>1. Writes(d)' = {}
      BY <1>1, <2>1, <2>3
    <3>2. Settled(d, docs', chunks')
      BY <2>1, <2>3
    <3> QED BY <3>1, <3>2
  <2> QED BY <2>2, <2>3
<1>4. CASE r \notin Writes(d)
  <2>1. task[r].doc # d \/ task[r].op \notin WriteOps
    BY <1>4 DEF Writes
  <2>2. Writes(d)' = Writes(d)
    BY <1>1, <1>4, <2>1
  <2>3. docs'[d] = docs[d]
    BY <2>1
  <2>4. Same(d, chunks, chunks')
    BY <2>1 DEF OnlyItsOwn, Same
  <2>5. ASSUME NEW q \in Writes(d)' PROVE Current(task'[q], docs', chunks')
    <3>1. q \in Writes(d) /\ q \in Requests \ {r} /\ task'[q] = task[q] /\ task[q].doc = d
      BY <1>1, <1>4, <2>2 DEF Writes
    <3>2. Current(task[q], docs, chunks)
      BY <1>2, <3>1
    <3>3. Settled(d, docs, chunks) => Settled(d, docs', chunks')
      BY <2>3, <2>4, SameSettled
    <3>4. Of(d, chunks') = Of(d, chunks)
      BY <2>4 DEF Same
    <3> QED BY <2>3, <3>1, <3>2, <3>3, <3>4 DEF Current
  <2>6. Writes(d)' = {} => Settled(d, docs', chunks')
    BY <1>2, <2>2, <2>3, <2>4, SameSettled
  <2> QED BY <1>2, <2>2, <2>5, <2>6
<1> QED BY <1>3, <1>4
LEMMA BeginKeepsClean ==
  ASSUME MemoryInv, CleanInv, NEW r \in Requests, NEW k, Begun(r, k)
  PROVE  CleanInv'
<1> SUFFICES ASSUME NEW d \in DocIds \ dirty'
             PROVE  /\ \A p, q \in Writes(d)' : p = q
                    /\ Writes(d)' = {} => Settled(d, docs', chunks')
                    /\ \A q \in Writes(d)' : Current(task'[q], docs', chunks')
  BY DEF CleanInv
<1>1. /\ Writes(d)' = (Writes(d) \ {r}) \cup (IF k.doc = d /\ k.op \in WriteOps THEN {r} ELSE {})
      /\ task'[r] = k /\ \A q \in Requests \ {r} : task'[q] = task[q]
  BY WritesMove DEF Begun
<1>2. r \notin Writes(d) /\ k.op \in WriteOps /\ chunks' = chunks
  BY RestAble DEF Begun, Writes, WriteOps
<1>3. dirty' = IF Writes(k.doc) \ {r} = {} THEN dirty \ {k.doc} ELSE dirty \cup {k.doc}
  BY WritersAreWrites DEF Begun, Memory!BeginWrite
<1>4. CASE k.doc = d
  <2>1. Writes(d)' = {r}
    BY <1>1, <1>2, <1>3, <1>4
  <2>2. Current(k, docs', chunks')
    BY <1>4, ChunkRowIsNotNull DEF Begun, Current, MemoryInv
  <2> QED BY <1>1, <2>1, <2>2
<1>5. CASE k.doc # d
  <2>1. Writes(d)' = Writes(d) /\ d \notin dirty
    BY <1>1, <1>2, <1>3, <1>5
  <2>2. docs'[d] = docs[d] /\ Same(d, chunks, chunks')
    BY <1>2, <1>5 DEF Begun, Same, MemoryInv
  <2>3. /\ \A p, q \in Writes(d) : p = q
        /\ Writes(d) = {} => Settled(d, docs, chunks)
        /\ \A q \in Writes(d) : Current(task[q], docs, chunks)
    BY <2>1 DEF CleanInv
  <2>4. ASSUME NEW q \in Writes(d) PROVE Current(task'[q], docs', chunks')
    <3>1. task'[q] = task[q] /\ task[q].doc = d
      BY <1>1, <1>2 DEF Writes
    <3>2. Settled(d, docs, chunks) => Settled(d, docs', chunks')
      BY <2>2, SameSettled
    <3> QED BY <1>2, <2>2, <2>3, <3>1, <3>2 DEF Current
  <2>5. Settled(d, docs, chunks) => Settled(d, docs', chunks')
    BY <2>2, SameSettled
  <2> QED BY <2>1, <2>3, <2>4, <2>5
<1> QED BY <1>4, <1>5

LEMMA MoveKeepsClean ==
  ASSUME MemoryInv, CleanInv, NEW r \in Requests, NEW k, MovesOf(r, k)
  PROVE  CleanInv'
<1> DEFINE d == task[r].doc
<1>0. OnlyItsOwn(r) /\ Able(task[r]) /\ d \in DocIds \cup {0}
  BY MoveKeepsType DEF MemoryInv, Able, Tasks
<1>1. CASE Begun(r, k)
  BY <1>1, BeginKeepsClean
<1>2. CASE Written(r, k)
  <2>1. Moves(r, k) /\ task[r].op = "update" /\ d \in DocIds /\ dirty' = dirty /\ task[r].text \in Texts
        /\ task[r].at = "write" /\ chunks' = chunks
    BY <1>0, <1>2 DEF Written, Able
  <2>2. ASSUME Current(task[r], docs, chunks) PROVE k.op \in WriteOps /\ Current(k, docs', chunks')
    <3>1. k.at = "refresh" /\ Like(k, task[r])
      BY <1>2, <2>1, <2>2 DEF Written, Current
    <3>2. docs'[d] # NULL
      BY <1>2, <2>1, <2>2, <3>1, ChunkRowIsNotNull, RestAble DEF Written, Current, MemoryInv
    <3> QED BY <2>1, <3>1, <3>2 DEF Like, WriteOps, Current
  <2>3. k.op \in WriteOps => k.doc = d
    BY <1>2, RestAble DEF Written, Like, WriteOps
  <2>4. \A e \in DocIds : e # d => docs'[e] = docs[e]
    BY <1>2, <2>1 DEF Written, MemoryInv
  <2> QED BY <1>0, <2>1, <2>2, <2>3, <2>4, CleanStep DEF WriteOps
<1>3. CASE Refreshed(r, k)
  <2>1. Moves(r, k) /\ task[r].op = "update" /\ d \in DocIds /\ dirty' = dirty
        /\ task[r].at = "refresh" /\ chunks' = chunks /\ docs' = docs
    BY <1>0, <1>3 DEF Refreshed, Able
  <2>2. ASSUME Current(task[r], docs, chunks) PROVE k.op \in WriteOps /\ Current(k, docs', chunks')
    <3>1. k.at = "purge" /\ k.op = "update" /\ k.doc = d /\ k.text = docs[d]
      BY <1>3, <2>1, <2>2 DEF Refreshed, Current
    <3> QED BY <2>1, <3>1 DEF WriteOps, Current
  <2>3. k.op \in WriteOps => k.doc = d
    BY <1>3, RestAble DEF Refreshed, WriteOps
  <2> QED BY <1>0, <2>1, <2>2, <2>3, CleanStep DEF WriteOps
<1>4. CASE Purged(r, k)
  <2>1. Moves(r, k) /\ task[r].op \in WriteOps /\ d \in DocIds /\ dirty' = dirty
        /\ task[r].at = "purge" /\ docs' = docs /\ Like(k, task[r])
        /\ k.at = IF task[r].op = "delete" THEN "drop" ELSE "insert"
    BY <1>0, <1>4 DEF Purged, Able
  <2>2. Of(d, chunks') = {}
    BY <1>4, <2>1, PurgedChunks DEF Purged
  <2>3. ASSUME Current(task[r], docs, chunks) PROVE Current(k, docs', chunks')
    BY <2>1, <2>2, <2>3 DEF Current, Like
  <2> QED BY <1>0, <2>1, <2>3, CleanStep DEF Like
<1>5. CASE Inserted(r, k)
  <2>1. Moves(r, k) /\ task[r].op \in WriteOps /\ d \in DocIds /\ dirty' = dirty
        /\ task[r].at = "insert" /\ docs' = docs /\ task[r].text \in Texts
    BY <1>0, <1>5 DEF Inserted, Able, WriteOps
  <2>2. ASSUME Current(task[r], docs, chunks) PROVE Settled(d, docs', chunks')
    <3>1. docs'[d] = task[r].text /\ docs'[d] # NULL /\ Of(d, chunks) = {}
      BY <2>1, <2>2, ChunkRowIsNotNull DEF Current
    <3>2. CASE chunks' = chunks /\ Size[task[r].text] = 0
      <4>1. Memory!chunk_text(d, task[r].text) = {}
        BY <2>1, <3>2, TextRows
      <4> QED BY <3>1, <3>2, <4>1 DEF Settled
    <3>3. CASE \E first \in Nat \ {0} : Filled(chunks, chunks', d, task[r].text, first)
      <4>1. PICK first \in Nat \ {0} : Filled(chunks, chunks', d, task[r].text, first)
        BY <3>3
      <4>2. Lie(d, chunks', first, task[r].text)
        BY <2>1, <4>1, FilledChunks
      <4>3. {chunks'[c] : c \in Of(d, chunks')} = Memory!chunk_text(d, task[r].text)
        BY <2>1, <4>2, RowsOfText
      <4> QED BY <3>1, <4>3 DEF Settled
    <3> QED BY <1>5, <3>1, <3>2, <3>3 DEF Inserted
  <2>3. CASE k = Memory!Rest
    <3>1. k.op \notin WriteOps
      BY <2>3, RestAble DEF WriteOps
    <3> QED BY <1>0, <2>1, <2>2, <3>1, CleanStep
  <2>4. CASE k.at = "list" /\ Like(k, task[r])
    <3>1. ASSUME Current(task[r], docs, chunks) PROVE Current(k, docs', chunks')
      BY <2>2, <2>4, <3>1 DEF Current, Like
    <3> QED BY <1>0, <2>1, <2>4, <3>1, CleanStep DEF Like
  <2> QED BY <1>5, <2>3, <2>4 DEF Inserted
<1>6. CASE Dropping(r, k)
  <2>1. Moves(r, k) /\ task[r].op = "delete" /\ d \in DocIds /\ dirty' = dirty
        /\ task[r].at = "drop" /\ docs' = docs /\ chunks' = chunks
    BY <1>0, <1>6 DEF Dropping, Able
  <2>2. CASE k = Memory!Rest /\ (docs[d] = NULL \/ Of(d, chunks) # {})
    <3>1. ASSUME Current(task[r], docs, chunks) PROVE Settled(d, docs', chunks')
      BY <2>1, <2>2, <3>1 DEF Current, Settled
    <3>2. k.op \notin WriteOps
      BY <2>2, RestAble DEF WriteOps
    <3> QED BY <1>0, <2>1, <3>1, <3>2, CleanStep DEF WriteOps
  <2>3. CASE k.at = "gone" /\ Like(k, task[r])
    <3>1. ASSUME Current(task[r], docs, chunks) PROVE Current(k, docs', chunks')
      BY <2>1, <2>3, <3>1 DEF Current, Like
    <3> QED BY <1>0, <2>1, <2>3, <3>1, CleanStep DEF Like, WriteOps
  <2> QED BY <1>6, <2>2, <2>3 DEF Dropping
<1>7. CASE Dropped(r, k)
  <2>1. Moves(r, k) /\ task[r].op = "delete" /\ d \in DocIds /\ dirty' = dirty
        /\ task[r].at = "gone" /\ docs' = [docs EXCEPT ![d] = NULL] /\ chunks' = chunks /\ k = Memory!Rest
    BY <1>0, <1>7 DEF Dropped, Able
  <2>2. ASSUME Current(task[r], docs, chunks) PROVE Settled(d, docs', chunks')
    BY <2>1, <2>2 DEF Current, Settled, MemoryInv
  <2>3. k.op \notin WriteOps
    BY <2>1, RestAble DEF WriteOps
  <2>4. \A e \in DocIds : e # d => docs'[e] = docs[e]
    BY <2>1 DEF MemoryInv
  <2> QED BY <1>0, <2>1, <2>2, <2>3, <2>4, CleanStep DEF WriteOps
<1>8. CASE Embedding(r, k) \/ Embedded(r, k) \/ Recording(r, k)
  <2>1. Moves(r, k) /\ task[r].op \notin WriteOps /\ k.op \notin WriteOps
        /\ docs' = docs /\ dirty' = dirty
    BY <1>0, <1>8, RestAble DEF Embedding, Embedded, Recording, Like, Able, Embeds, WriteOps
  <2> QED BY <1>0, <2>1, CleanStep
<1>9. CASE Listed(r, k)
  <2>1. Moves(r, k) /\ task[r].at = "list" /\ docs' = docs /\ dirty' = dirty /\ chunks' = chunks
        /\ task[r].op \in {"ingest", "embed"}
    BY <1>0, <1>9 DEF Listed, Able
  <2>2. k.op \notin WriteOps
    <3>1. Able(k)
      BY <2>1 DEF Moves
    <3> QED BY <1>9, <3>1, RestAble DEF Listed, Able, Embeds, WriteOps
  <2>3. ASSUME Current(task[r], docs, chunks) PROVE Settled(d, docs', chunks')
    BY <2>1, <2>3 DEF Current
  <2> QED BY <1>0, <2>1, <2>2, <2>3, CleanStep
<1>10. CASE Failed(r, k)
  <2>1. Moves(r, k) /\ docs' = docs /\ k = Memory!Rest
        /\ dirty' = IF r \in Writes(d) THEN dirty \cup {d} ELSE dirty
    BY <1>10, WritersAreWrites DEF Failed
  <2>2. k.op \notin WriteOps /\ (task[r].op \in WriteOps => d \in dirty')
    BY <2>1, RestAble DEF WriteOps, Writes
  <2> QED BY <1>0, <2>1, <2>2, CleanStep
<1> QED BY <1>1, <1>2, <1>3, <1>4, <1>5, <1>6, <1>7, <1>8, <1>9, <1>10 DEF MovesOf

LEMMA CleanInit == Memory!Init => CleanInv
<1> SUFFICES ASSUME Memory!Init, NEW d \in DocIds PROVE Writes(d) = {} /\ Settled(d, docs, chunks)
  BY DEF CleanInv
<1>1. /\ docs = [e \in DocIds |-> NULL] /\ chunks = [c \in ChunkIds |-> NULL]
      /\ task = [r \in Requests |-> Memory!Rest]
  BY DEF Memory!Init, Memory!DocIds, Memory!ChunkIds, DocIds, ChunkIds
<1> QED BY <1>1, RestAble DEF Writes, WriteOps, Settled, Of

LEMMA RestartKeepsClean == MemoryInv /\ CleanInv /\ Memory!Restart => CleanInv'
<1> SUFFICES ASSUME MemoryInv, CleanInv, Memory!Restart PROVE CleanInv'
  OBVIOUS
<1>1. /\ task' = [r \in Requests |-> Memory!Rest] /\ docs' = docs /\ chunks' = chunks
      /\ dirty' = dirty \cup {d \in DocIds : Writes(d) # {}}
  BY WritersAreWrites DEF Memory!Restart, Memory!DocIds, DocIds
<1>2. \A d : Writes(d)' = {}
  BY <1>1, RestAble DEF Writes, WriteOps
<1>3. ASSUME NEW d \in DocIds \ dirty' PROVE Settled(d, docs', chunks')
  BY <1>1 DEF CleanInv
<1> QED BY <1>2, <1>3 DEF CleanInv

LEMMA CleanStays ==
  ASSUME CleanInv, UNCHANGED <<s1, s2, s3, s4, s5, s6, s7, s8, s9>>
  PROVE  CleanInv'
<1>1. \A d : Writes(d)' = Writes(d)
  BY DEF Writes
<1> QED BY <1>1 DEF CleanInv

\* DocumentService rebuilds the chunks of a document when it is written: unless its writes
\* overlapped or failed, they are those of the text it has, and nothing of a deleted one.
THEOREM ChunksCurrentHolds == Spec => []ChunksCurrent
<1> DEFINE Types == part = "memory" => MemoryInv
           Inv == part = "memory" => CleanInv
<1>1. Init => Inv
  BY CleanInit DEF Init
<1>2. Types /\ Inv /\ [Next]_vars => Inv'
  <2> SUFFICES ASSUME Types, Inv, [Next]_vars, part' = "memory" PROVE CleanInv'
    OBVIOUS
  <2>1. CASE UNCHANGED <<s1, s2, s3, s4, s5, s6, s7, s8, s9>>
    BY <2>1, MemoryStep, CleanStays
  <2> QED BY <2>1, MemoryStep, MemoryMoves, MoveKeepsClean, RestartKeepsClean
<1>3. Types /\ Inv => ChunksCurrent
  <2> SUFFICES ASSUME MemoryInv, CleanInv, NEW d \in DocIds \ dirty, Memory!Writers(d) = {}
               PROVE  Memory!Cut(d) = IF docs[d] = NULL THEN {} ELSE Memory!chunk_text(d, docs[d])
    BY DEF ChunksCurrent, Memory!ChunksCurrent, Memory!DocIds, DocIds
  <2>1. Settled(d, docs, chunks)
    BY WritersAreWrites DEF CleanInv
  <2>2. Memory!Cut(d) = {chunks[c] : c \in Of(d, chunks)}
    BY ChunksOfAre DEF Memory!Cut
  <2> QED BY <2>1, <2>2 DEF Settled
<1> QED BY <1>1, <1>2, <1>3, MemoryAlways, PTL DEF Spec
-----------------------------------------------------------------------------
(* Embedding                                                               *)

Findable(c, cs, vs, es) == vs[c] = cs[c] /\ c \in es

\* What a call has done that embeds a document nobody wrote meanwhile.
Underway(k, cs, vs, es, gone) ==
  /\ \A c \in Of(k.doc, cs) \ gone : c \in k.queue \/ Findable(c, cs, vs, es)
  /\ k.at = "record" /\ Memory!Min(k.queue) \in Of(k.doc, cs) \ gone =>
       vs[Memory!Min(k.queue)] = cs[Memory!Min(k.queue)]

SearchInv ==
  /\ \A d \in indexed \cap DocIds :
       /\ Writes(d) = {}
       /\ \A c \in Of(d, chunks) \ retired : Findable(c, chunks, vectors, embeddings)
  /\ \A r \in Requests \ crossed : task[r].at \in Embeds =>
       /\ Writes(task[r].doc) = {}
       /\ Underway(task[r], chunks, vectors, embeddings, retired)

\* No step takes a vector from a chunk that has its own.
LEMMA VectorsImprove ==
  ASSUME MemoryInv, VectorInv, NEW r \in Requests, NEW k, MovesOf(r, k)
  PROVE  /\ embeddings \subseteq embeddings'
         /\ \A c \in ChunkIds \ retired : vectors[c] = chunks[c] => vectors'[c] = chunks[c]
<1>1. CASE vectors' = vectors
  BY <1>1 DEF MovesOf, Begun, Written, Refreshed, Purged, Inserted, Dropping, Dropped, Embedding, Listed,
              Embedded, Recording, Failed
<1>2. CASE Embedded(r, k) /\ vectors' # vectors
  <2> DEFINE b == Memory!Min(task[r].queue)
             row == IF task[r].row # NULL THEN task[r].row ELSE chunks[b]
  <2>1. /\ vectors' = [vectors EXCEPT ![b] = row] /\ b \in task[r].queue /\ task[r].at = "vector"
        /\ embeddings' = embeddings
    BY <1>2 DEF Embedded
  <2>2. b \notin retired => row = chunks[b]
    BY <2>1 DEF VectorInv, Holds, Embeds
  <2> HIDE DEF row, b
  <2> QED BY <2>1, <2>2 DEF VectorInv
<1> QED BY <1>1, <1>2 DEF MovesOf, Begun, Written, Refreshed, Purged, Inserted, Dropping, Dropped,
                          Embedding, Listed, Recording, Failed

\* A document nobody writes keeps its chunks, and what is found of them.
LEMMA Undisturbed ==
  ASSUME MemoryInv, VectorInv, NEW r \in Requests, NEW k, MovesOf(r, k), NEW d \in DocIds, Writes(d) = {}
  PROVE  /\ Same(d, chunks, chunks')
         /\ \A c \in Of(d, chunks) \ retired :
              /\ vectors[c] = chunks[c] => vectors'[c] = chunks'[c]
              /\ Findable(c, chunks, vectors, embeddings) => Findable(c, chunks', vectors', embeddings')
         /\ retired \subseteq retired'
<1>1. Same(d, chunks, chunks')
  <2>1. OnlyItsOwn(r) /\ r \notin Writes(d)
    BY MoveKeepsType
  <2> QED BY <2>1 DEF OnlyItsOwn, Writes, Same
<1>2. ASSUME NEW c \in Of(d, chunks) \ retired, vectors[c] = chunks[c]
      PROVE  vectors'[c] = chunks'[c]
  <2>1. c \in ChunkIds \ retired /\ chunks'[c] = chunks[c]
    BY <1>1 DEF Of, Same
  <2> QED BY <1>2, <2>1, VectorsImprove
<1>3. embeddings \subseteq embeddings' /\ retired \subseteq retired'
  BY VectorsImprove, ChunksPersist
<1> QED BY <1>1, <1>2, <1>3 DEF Findable

LEMMA UnderwayOn ==
  ASSUME MemoryInv, VectorInv, NEW r \in Requests, NEW k, MovesOf(r, k), NEW j, j.doc \in DocIds,
         Writes(j.doc) = {}, Underway(j, chunks, vectors, embeddings, retired)
  PROVE  Underway(j, chunks', vectors', embeddings', retired')
<1>1. /\ Same(j.doc, chunks, chunks')
      /\ \A c \in Of(j.doc, chunks) \ retired :
           /\ vectors[c] = chunks[c] => vectors'[c] = chunks'[c]
           /\ Findable(c, chunks, vectors, embeddings) => Findable(c, chunks', vectors', embeddings')
      /\ retired \subseteq retired'
  BY Undisturbed
<1>2. Of(j.doc, chunks') \ retired' \subseteq Of(j.doc, chunks) \ retired
  BY <1>1 DEF Same
<1> QED BY <1>1, <1>2 DEF Underway

\* Where nobody writes, nobody begins to but those who say so.
LEMMA NobodyWrites ==
  ASSUME MemoryInv, NEW r \in Requests, NEW k, MovesOf(r, k), NEW d \in DocIds, Writes(d) = {},
         Begun(r, k) => k.doc # d
  PROVE  Writes(d)' = {}
<1>1. Writes(d)' = (Writes(d) \ {r}) \cup (IF k.doc = d /\ k.op \in WriteOps THEN {r} ELSE {})
  BY WritesMove DEF MovesOf, Begun, Written, Refreshed, Purged, Inserted, Dropping, Dropped, Embedding,
                    Listed, Embedded, Recording, Failed
<1>2. task[r].doc # d \/ task[r].op \notin WriteOps
  BY DEF Writes
<1>3. Able(task[r]) /\ Able(k)
  BY DEF MemoryInv, MovesOf, Begun, Written, Refreshed, Purged, Inserted, Dropping, Dropped, Embedding,
         Listed, Embedded, Recording, Failed, Moves
<1>4. ASSUME ~ Begun(r, k), k.op \in WriteOps PROVE task[r].op \in WriteOps /\ k.doc = task[r].doc
  BY <1>3, <1>4, RestAble
  DEF MovesOf, Written, Refreshed, Purged, Inserted, Dropping, Dropped, Embedding, Listed, Embedded,
      Recording, Failed, Like, Able, Embeds, WriteOps
<1> QED BY <1>1, <1>2, <1>4

LEMMA MoveKeepsSearch ==
  ASSUME MemoryInv, VectorInv, SearchInv, NEW r \in Requests, NEW k, MovesOf(r, k)
  PROVE  SearchInv'
<1>0. /\ Able(task[r]) /\ Able(k) /\ Moves(r, k) /\ \A q \in Requests : Able(task[q])
      /\ task'[r] = k /\ \A q \in Requests \ {r} : task'[q] = task[q]
  <2>1. Moves(r, k)
    BY DEF MovesOf, Begun, Written, Refreshed, Purged, Inserted, Dropping, Dropped, Embedding,
           Listed, Embedded, Recording, Failed
  <2> QED BY <2>1, WritesMove DEF MemoryInv, Moves
<1>1. ASSUME NEW d \in (indexed' \cap DocIds), d \in indexed
      PROVE  /\ Writes(d)' = {}
             /\ \A c \in Of(d, chunks') \ retired' : Findable(c, chunks', vectors', embeddings')
  <2>1. Begun(r, k) => k.doc # d
    BY <1>1 DEF Begun, Memory!BeginWrite
  <2>2. Writes(d) = {} /\ \A c \in Of(d, chunks) \ retired : Findable(c, chunks, vectors, embeddings)
    BY <1>1 DEF SearchInv
  <2>3. Writes(d)' = {}
    BY <2>1, <2>2, NobodyWrites
  <2>4. /\ Same(d, chunks, chunks')
        /\ \A c \in Of(d, chunks) \ retired :
             Findable(c, chunks, vectors, embeddings) => Findable(c, chunks', vectors', embeddings')
        /\ retired \subseteq retired'
    BY <2>2, Undisturbed
  <2> QED BY <2>2, <2>3, <2>4 DEF Same
<1>2. ASSUME NEW q \in Requests \ {r}, q \notin crossed', task[q].at \in Embeds
      PROVE  /\ Writes(task[q].doc)' = {}
             /\ Underway(task[q], chunks', vectors', embeddings', retired')
  <2>1. q \notin crossed
    BY <1>2 DEF MovesOf, Begun, Memory!BeginWrite, Written, Refreshed, Purged, Inserted, Dropping, Dropped,
                Embedding, Listed, Embedded, Recording, Failed
  <2>2. Begun(r, k) => k.doc # task[q].doc
    BY <1>0, <1>2 DEF Begun, Memory!BeginWrite, Able
  <2>3. /\ Writes(task[q].doc) = {} /\ task[q].doc \in DocIds
        /\ Underway(task[q], chunks, vectors, embeddings, retired)
    BY <1>0, <1>2, <2>1 DEF SearchInv, Able, Embeds
  <2>4. PICK d \in DocIds : d = task[q].doc /\ task'[q].doc = d
    BY <1>0, <2>3
  <2>5. Writes(d)' = {}
    BY <2>2, <2>3, <2>4, NobodyWrites
  <2>6. Writes(task[q].doc)' = {}
    BY <2>4, <2>5 DEF Writes
  <2> QED BY <2>3, <2>6, UnderwayOn
<1>3. ASSUME r \notin crossed', k.at \in Embeds
      PROVE  /\ Writes(k.doc)' = {}
             /\ Underway(k, chunks', vectors', embeddings', retired')
  <2>1. CASE Listed(r, k)
    <3>1. /\ k.doc = task[r].doc /\ k.queue = Of(k.doc, chunks) /\ chunks' = chunks /\ retired' = retired
          /\ k.at = "vector"
      BY <1>3, <2>1, RestAble DEF Listed, Embeds
    <3>2. Writes(k.doc) \ {r} = {}
      BY <1>3, <2>1, <3>1, WritersAreWrites DEF Listed
    <3>3. Writes(k.doc)' = {}
      BY <1>0, <1>3, <3>2, WritesMove DEF Able, WriteOps
    <3> QED BY <3>1, <3>3 DEF Underway
  <2>2. CASE Embedded(r, k)
    <3> DEFINE b == Memory!Min(task[r].queue)
               row == IF task[r].row # NULL THEN task[r].row ELSE chunks[b]
    <3>1. /\ k.at = "record" /\ k.doc = task[r].doc /\ k.queue = task[r].queue /\ task[r].at = "vector"
          /\ vectors' = [vectors EXCEPT ![b] = row] /\ b \in task[r].queue
          /\ chunks' = chunks /\ embeddings' = embeddings /\ retired' = retired /\ crossed' = crossed
      BY <1>3, <2>2, RestAble DEF Embedded, Embeds, Like
    <3>2. /\ Writes(k.doc) = {} /\ k.doc \in DocIds
          /\ Underway(task[r], chunks, vectors, embeddings, retired)
      BY <1>0, <1>3, <3>1 DEF SearchInv, Able, Embeds
    <3>3. b \notin retired => row = chunks[b]
      BY <3>1 DEF VectorInv, Holds, Embeds
    <3>4. b \in ChunkIds
      BY <1>0, <3>1 DEF Able, Tasks
    <3>5. b \in Of(k.doc, chunks) \ retired => vectors'[b] = chunks'[b]
      BY <3>1, <3>3, <3>4 DEF VectorInv
    <3>6. \A c \in Of(k.doc, chunks) \ retired : c \in k.queue \/ Findable(c, chunks', vectors', embeddings')
      BY <3>1, <3>2, Undisturbed DEF Underway
    <3>7. ~ Begun(r, k)
      BY <3>1, RestAble DEF Begun
    <3>8. Writes(k.doc)' = {}
      BY <3>2, <3>7, NobodyWrites
    <3> QED BY <3>1, <3>5, <3>6, <3>8 DEF Underway
  <2>3. CASE Recording(r, k)
    <3> DEFINE b == Memory!Min(task[r].queue)
    <3>1. /\ k.at = "vector" /\ k.doc = task[r].doc /\ k.queue = task[r].queue \ {b} /\ task[r].at = "record"
          /\ chunks' = chunks /\ vectors' = vectors /\ retired' = retired /\ crossed' = crossed
          /\ embeddings' = embeddings \cup {b}
      BY <1>3, <2>3, RestAble DEF Recording, Embeds, Like
    <3>2. /\ Writes(k.doc) = {} /\ k.doc \in DocIds
          /\ Underway(task[r], chunks, vectors, embeddings, retired)
      BY <1>0, <1>3, <3>1 DEF SearchInv, Able, Embeds
    <3>3. ~ Begun(r, k)
      BY <3>1, RestAble DEF Begun
    <3>4. Writes(k.doc)' = {}
      BY <3>2, <3>3, NobodyWrites
    <3> HIDE DEF b
    <3>5. b = Memory!Min(task[r].queue)
      BY DEF b
    <3> QED BY <3>1, <3>2, <3>4, <3>5 DEF Underway, Findable
  <2>4. ~ Failed(r, k)
    BY <1>3, RestAble DEF Failed, Embeds
  <2> QED BY <1>3, <2>1, <2>2, <2>3, <2>4, RestAble
          DEF MovesOf, Begun, Written, Refreshed, Purged, Inserted, Dropping, Dropped, Embedding, Embeds
<1>4. ASSUME NEW d \in (indexed' \cap DocIds), d \notin indexed
      PROVE  /\ Writes(d)' = {}
             /\ \A c \in Of(d, chunks') \ retired' : Findable(c, chunks', vectors', embeddings')
  <2> DEFINE b == Memory!Min(task[r].queue)
  <2>1. Recording(r, k) /\ indexed' # indexed
    BY <1>4 DEF MovesOf, Begun, Memory!BeginWrite, Written, Refreshed, Purged, Inserted, Dropping, Dropped,
                Embedding, Listed, Embedded, Failed
  <2>2. /\ k = Memory!Rest /\ task[r].queue = {b} /\ r \notin crossed /\ d = task[r].doc /\ task[r].at = "record"
        /\ chunks' = chunks /\ vectors' = vectors /\ retired' = retired /\ embeddings' = embeddings \cup {b}
    BY <1>4, <2>1 DEF Recording
  <2>3. Writes(d) = {} /\ Underway(task[r], chunks, vectors, embeddings, retired)
    BY <2>2 DEF SearchInv, Embeds
  <2>4. ~ Begun(r, k)
    BY <2>2, RestAble DEF Begun
  <2>5. Writes(d)' = {}
    BY <2>3, <2>4, NobodyWrites
  <2> HIDE DEF b
  <2>6. b = Memory!Min(task[r].queue)
    BY DEF b
  <2> QED BY <2>2, <2>3, <2>5, <2>6 DEF Underway, Findable
<1> QED BY <1>0, <1>1, <1>2, <1>3, <1>4 DEF SearchInv

LEMMA SearchInit == Memory!Init => SearchInv
BY RestAble DEF Memory!Init, SearchInv, Embeds

LEMMA RestartKeepsSearch == SearchInv /\ Memory!Restart => SearchInv'
BY RestAble DEF Memory!Restart, SearchInv, Embeds

LEMMA SearchStays ==
  ASSUME SearchInv, UNCHANGED <<s1, s2, s3, s4, s5, s6, s7, s8, s9>>
  PROVE  SearchInv'
<1>1. \A d : Writes(d)' = Writes(d)
  BY DEF Writes
<1> QED BY <1>1 DEF SearchInv

LEMMA SearchAlways == Spec => [](part = "memory" => SearchInv)
<1> DEFINE Types == part = "memory" => MemoryInv
           Stored == part = "memory" => VectorInv
           Inv == part = "memory" => SearchInv
<1>1. Init => Inv
  BY SearchInit DEF Init
<1>2. Types /\ Stored /\ Inv /\ [Next]_vars => Inv'
  <2> SUFFICES ASSUME Types, Stored, Inv, [Next]_vars, part' = "memory" PROVE SearchInv'
    OBVIOUS
  <2>1. CASE UNCHANGED <<s1, s2, s3, s4, s5, s6, s7, s8, s9>>
    BY <2>1, MemoryStep, SearchStays
  <2> QED BY <2>1, MemoryStep, MemoryMoves, MoveKeepsSearch, RestartKeepsSearch
<1> QED BY <1>1, <1>2, MemoryAlways, VectorsAlways, PTL DEF Spec

\* EmbeddingService.generate_for_document stores one vector and one record a commit: after a
\* call that no write of the document overlapped, every chunk is found until the next write.
THEOREM IngestedIsSearchableHolds == Spec => []IngestedIsSearchable
<1>1. (part = "memory" => MemoryInv) /\ (part = "memory" => SearchInv) => IngestedIsSearchable
  <2> SUFFICES ASSUME MemoryInv, SearchInv, NEW d \in indexed, NEW c \in Memory!ChunksOf(d) \ retired
               PROVE  vectors[c] = chunks[c] /\ c \in embeddings
    BY DEF IngestedIsSearchable, Memory!IngestedIsSearchable
  <2>1. c \in Of(d, chunks) \ retired
    BY ChunksOfAre
  <2>2. d \in DocIds
    BY <2>1 DEF Of, MemoryInv, ChunkRows
  <2> QED BY <2>1, <2>2 DEF SearchInv, Findable
<1> QED BY <1>1, MemoryAlways, SearchAlways, PTL
=============================================================================
