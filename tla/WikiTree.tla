-------------------------------- MODULE WikiTree --------------------------------
(***************************************************************************)
(* The wiki of a space: a tree of pages with their slugs, the history of   *)
(* each page, and who may edit what (wiki_handler.cpp and the statements   *)
(* of database.cpp it sends).  Icons, covers and positions are left out;   *)
(* the files of a wiki are in SpaceFiles.  A slug is what is made of a     *)
(* title, with a number after it when others have it: <<title, 1>> is the  *)
(* slug without a number.                                                  *)
(***************************************************************************)
EXTENDS Requests, Sequences, FiniteSetsExt

CONSTANTS
  Writers,
  Keepers,         \* admins of the space or the server: own the wiki
  Titles,
  Texts,
  WikiScenarios

Top == 0           \* the parent of a page that lies under none
Same == "same"     \* a PUT that leaves the title, or the text, alone
May == [view |-> 0, edit |-> 1, owner |-> 2]

VARIABLES
  pages,           \* wiki_pages, with what has been deleted
  pageVersions,    \* wiki_page_versions
  pageGrants,      \* wiki_page_permissions
  wikiGrants,      \* wiki_permissions
  replaced,        \* history: the texts that a kept save or a revert replaced
  astray           \* history: pages that a request has put under a deleted one

wikiTables == <<pages, pageVersions, pageGrants, wikiGrants, replaced, astray>>
wikiVars == <<wikiTables, serving>>

WikiRequests ==
  [op : {"page"}, by : Writers, parent : Nat, title : Titles, text : Texts]
  \cup [op : {"save"}, by : Writers, page : Nat, title : Titles \cup {Same},
        text : Texts \cup {Same}, keep : BOOLEAN]
  \cup [op : {"revert"}, by : Writers, page : Nat, number : Nat]
  \cup [op : {"move"}, by : Writers, page : Nat, parent : Nat]
  \cup [op : {"delete"}, by : Writers, page : Nat]
  \cup [op : {"page grant"}, by : Writers, page : Nat, of : Writers, level : {0, 1, 2}]
  \cup [op : {"page ungrant"}, by : Writers, page : Nat, of : Writers]
  \cup [op : {"wiki grant"}, by : Writers, of : Writers, level : DOMAIN May]
  \cup [op : {"wiki ungrant"}, by : Writers, of : Writers]

\* A scenario starts with a tree of live pages: a page is younger than its parent.
ASSUME WikiAssumption ==
  \A s \in WikiScenarios :
    /\ s.pages \in Seq([parent : Nat, slug : Titles \X Nat, title : Titles, text : Texts,
                        by : Writers, here : {TRUE}])
    /\ \A p \in DOMAIN s.pages : s.pages[p].parent < p
    /\ s.wikiGrants \in [Writers -> DOMAIN May]
    /\ s.requests \subseteq WikiRequests
    /\ s.atOnce \in Nat \ {0}

\* Each page has one version.
WikiTables(s) ==
  /\ pages = s.pages /\ wikiGrants = s.wikiGrants
  /\ pageVersions = {[page |-> p, number |-> 1, title |-> s.pages[p].title, text |-> s.pages[p].text] :
                       p \in DOMAIN s.pages}
  /\ pageGrants = {[page |-> p, of |-> s.pages[p].by, level |-> May.owner] : p \in DOMAIN s.pages}
  /\ replaced = {} /\ astray = {}
InitWiki == \E s \in WikiScenarios : WikiTables(s) /\ Listening(s)

LivePage(p) == p \in DOMAIN pages /\ pages[p].here
PageVersionsOf(p) == {v \in pageVersions : v.page = p}
NewestPageVersion(p) ==
  CHOOSE v \in PageVersionsOf(p) : \A u \in PageVersionsOf(p) : u.number <= v.number

\* wiki_page_slug_exists, and the index on slugs: the pages beside p.
SlugTaken(parent, slug, p) ==
  \E q \in DOMAIN pages \ {p} : LivePage(q) /\ pages[q].parent = parent /\ pages[q].slug = slug
\* The first number that is free.
FreeSlug(parent, title, p) ==
  <<title, Min({n \in 1 .. Len(pages) + 1 : ~SlugTaken(parent, <<title, n>>, p)})>>

\* The ancestors, deleted ones included, as the recursive queries find them:
\* they are UNION ALL and around a cycle they never end.
PagesAbove(p) ==
  LET Climb[k \in 0 .. Len(pages)] ==
        IF k = 0 THEN {p} ELSE Climb[k - 1] \cup {pages[q].parent : q \in Climb[k - 1] \ {Top}}
  IN Climb[Len(pages)]
QueryEnds(p) == Top \in PagesAbove(p)
\* The live pages under a page, each found through live pages.
LiveUnder(rows) == {q \in DOMAIN pages : LivePage(q) /\ pages[q].parent \in rows}
Descend(p) ==
  LET reached[k \in 0 .. Len(pages)] ==
        IF k = 0 THEN {p} ELSE reached[k - 1] \cup LiveUnder(reached[k - 1])
  IN reached
Descendants(p) == Descend(p)[Len(pages)]

EndsBelow(p) == LivePage(p) => pages[p].parent \notin Descendants(p)

\* What becomes of astray when a page is put under another.
PutUnder(p, parent) ==
  astray' = IF parent = Top \/ LivePage(parent) THEN astray \ {p} ELSE astray \cup {p}

\* get_access_level and get_page_access_level
WikiLevel(u) == IF u \in Keepers THEN May.owner ELSE May[wikiGrants[u]]
PageLevel(p, u) ==
  LET above == {g.level : g \in {h \in pageGrants : h.of = u /\ h.page \in PagesAbove(p)}}
      own == IF above # {} THEN Max(above) ELSE IF pages[p].by = u THEN May.owner ELSE May.view
  IN Max({WikiLevel(u), own})

NamesPages(r) ==
  /\ "page" \in DOMAIN r => r.page \in DOMAIN pages
  /\ "parent" \in DOMAIN r => r.parent \in {Top} \cup DOMAIN pages
  /\ "number" \in DOMAIN r => r.number \in {v.number : v \in PageVersionsOf(r.page)}

TakeWikiRequest(w) == Accept(w, {r \in calls.requests : NamesPages(r)}) /\ UNCHANGED wikiTables

-----------------------------------------------------------------------------
(* Pages come to be *)

\* Whether the parent is a live page is not asked.
CheckPage(w) ==
  /\ At(w, "page", "check")
  /\ IF WikiLevel(job[w].by) < May.edit THEN Respond(w)
     ELSE Recall(w, "insert", FreeSlug(job[w].parent, job[w].title, 0))
  /\ UNCHANGED wikiTables

\* create_wiki_page: the row and the creator's permission.
InsertPage(w) ==
  /\ At(w, "page", "insert")
  /\ LET p == Len(pages) + 1
         r == job[w]
     IN IF SlugTaken(r.parent, r.saw, 0)
        THEN Respond(w) /\ UNCHANGED <<pages, pageGrants, astray>>
        ELSE /\ pages' = Append(pages, [parent |-> r.parent, slug |-> r.saw, title |-> r.title,
                                        text |-> r.text, by |-> r.by, here |-> TRUE])
             /\ pageGrants' = pageGrants \cup {[page |-> p, of |-> r.by, level |-> May.owner]}
             /\ PutUnder(p, r.parent)
             /\ Recall(w, "number", [page |-> p, number |-> 0, title |-> r.title, text |-> r.text])
  /\ UNCHANGED <<pageVersions, wikiGrants, replaced>>

-----------------------------------------------------------------------------
(* Pages change *)

\* What every request for a page begins with.
PermitsPage(w, level) == PageLevel(job[w].page, job[w].by) >= level /\ LivePage(job[w].page)

\* PUT .../pages/:pageId reads the page, fills in what the request leaves
\* alone, and looks for a slug if the title is another.
CheckSave(w) ==
  /\ At(w, "save", "check")
  /\ QueryEnds(job[w].page)
  /\ LET r == job[w]
         old == pages[r.page]
         title == IF r.title = Same THEN old.title ELSE r.title
     IN IF ~PermitsPage(w, May.edit) THEN Respond(w)
        ELSE Recall(w, IF r.keep THEN "compare" ELSE "update",
               [page |-> r.page, number |-> 0, title |-> old.title, text |-> old.text,
                newTitle |-> title,
                slug |-> IF title = old.title THEN old.slug ELSE FreeSlug(old.parent, title, r.page),
                newText |-> IF r.text = Same THEN old.text ELSE r.text])
  /\ UNCHANGED wikiTables

\* A save that is to be kept writes down what the page was, unless the newest
\* version says the same.
CompareVersion(w) ==
  /\ At(w, "save", "compare")
  /\ LET s == job[w].saw IN
     Proceed(w, IF /\ PageVersionsOf(s.page) # {}
                /\ NewestPageVersion(s.page).title = s.title /\ NewestPageVersion(s.page).text = s.text
             THEN "update" ELSE "number")
  /\ UNCHANGED wikiTables

\* The page and one of its versions, whose text is to come back.
CheckRevertPage(w) ==
  /\ At(w, "revert", "check")
  /\ QueryEnds(job[w].page)
  /\ LET r == job[w]
         old == pages[r.page]
     IN IF ~PermitsPage(w, May.edit) THEN Respond(w)
        ELSE \E v \in PageVersionsOf(r.page) :
               /\ v.number = r.number
               /\ Recall(w, "number", [page |-> r.page, number |-> 0, title |-> old.title,
                                       text |-> old.text, newTitle |-> v.title, slug |-> old.slug,
                                       newText |-> v.text])
  /\ UNCHANGED wikiTables

\* create_wiki_page_version: the number is read ...
NumberPageVersion(w) ==
  /\ job[w].op \in {"page", "save", "revert"} /\ job[w].at = "number"
  /\ LET s == job[w].saw IN
     Recall(w, "version",
            [s EXCEPT !.number = 1 + Max({0} \cup {v.number : v \in PageVersionsOf(s.page)})])
  /\ UNCHANGED wikiTables

\* Mutant: the version is of what the page becomes.
InsertNewVersion(w) ==
  /\ job[w].op \in {"page", "save", "revert"} /\ job[w].at = "version"
  /\ LET s == job[w].saw
         text == IF job[w].op = "page" THEN s.text ELSE s.newText
     IN IF \E v \in PageVersionsOf(s.page) : v.number = s.number
        THEN Respond(w) /\ UNCHANGED pageVersions
        ELSE /\ pageVersions' = pageVersions \cup
                  {[page |-> s.page, number |-> s.number, title |-> s.title, text |-> text]}
             /\ IF job[w].op = "page" THEN Respond(w) ELSE Proceed(w, "update")
  /\ UNCHANGED <<pages, pageGrants, wikiGrants, replaced, astray>>

\* ... and the row written, or refused if another has the number: the page is
\* then left as it is.
InsertPageVersion(w) ==
  /\ job[w].op \in {"page", "save", "revert"} /\ job[w].at = "version"
  /\ LET s == job[w].saw IN
     IF \E v \in PageVersionsOf(s.page) : v.number = s.number
     THEN Respond(w) /\ UNCHANGED pageVersions
     ELSE /\ pageVersions' = pageVersions \cup
               {[page |-> s.page, number |-> s.number, title |-> s.title, text |-> s.text]}
          /\ IF job[w].op = "page" THEN Respond(w) ELSE Proceed(w, "update")
  /\ UNCHANGED <<pages, pageGrants, wikiGrants, replaced, astray>>

\* update_wiki_page writes every field, also of a page deleted meanwhile.
UpdatePage(w) ==
  /\ job[w].op \in {"save", "revert"} /\ job[w].at = "update"
  /\ LET s == job[w].saw
         p == s.page
     IN IF LivePage(p) /\ SlugTaken(pages[p].parent, s.slug, p)
        THEN UNCHANGED <<pages, replaced>>
        ELSE /\ pages' = [pages EXCEPT ![p].title = s.newTitle, ![p].slug = s.slug,
                                       ![p].text = s.newText]
             /\ replaced' = IF job[w].op = "revert" \/ job[w].keep
                            THEN replaced \cup {[page |-> p, title |-> pages[p].title,
                                                 text |-> pages[p].text]}
                            ELSE replaced
  /\ Respond(w)
  /\ UNCHANGED <<pageVersions, pageGrants, wikiGrants, astray>>

-----------------------------------------------------------------------------
(* The tree *)

\* The destination is not looked at: it may be deleted, or below the page.
CheckMovePage(w) ==
  /\ At(w, "move", "check")
  /\ QueryEnds(job[w].page)
  /\ Unless(w, ~PermitsPage(w, May.edit), "write")
  /\ UNCHANGED wikiTables

\* move_wiki_page keeps the slug: a page beside which the same one lies is
\* refused by the index.
MovePage(w) ==
  /\ At(w, "move", "write")
  /\ LET p == job[w].page IN
     IF LivePage(p) /\ SlugTaken(job[w].parent, pages[p].slug, p)
     THEN UNCHANGED <<pages, astray>>
     ELSE pages' = [pages EXCEPT ![p].parent = job[w].parent] /\ PutUnder(p, job[w].parent)
  /\ Respond(w)
  /\ UNCHANGED <<pageVersions, pageGrants, wikiGrants, replaced>>

\* Who created a page needs less to delete it.
CheckDeletePage(w) ==
  /\ At(w, "delete", "check")
  /\ QueryEnds(job[w].page)
  /\ Unless(w, ~PermitsPage(w, IF pages[job[w].page].by = job[w].by THEN May.edit ELSE May.owner),
            "write")
  /\ UNCHANGED wikiTables

\* soft_delete_wiki_page; a page that has come to lie under itself never ends.
DeletePage(w) ==
  /\ At(w, "delete", "write")
  /\ EndsBelow(job[w].page)
  /\ LET gone == Descendants(job[w].page) IN
     pages' = [p \in DOMAIN pages |->
                 IF p \in gone THEN [pages[p] EXCEPT !.here = FALSE] ELSE pages[p]]
  /\ Respond(w)
  /\ UNCHANGED <<pageVersions, pageGrants, wikiGrants, replaced, astray>>

-----------------------------------------------------------------------------
(* Permissions *)

CheckPageGrant(w) ==
  /\ At(w, "page grant", "check")
  /\ QueryEnds(job[w].page)
  /\ Unless(w, PageLevel(job[w].page, job[w].by) < May.owner, "write")
  /\ UNCHANGED wikiTables

CheckPageUngrant(w) ==
  /\ At(w, "page ungrant", "check")
  /\ QueryEnds(job[w].page)
  /\ Unless(w, PageLevel(job[w].page, job[w].by) < May.owner, "write")
  /\ UNCHANGED wikiTables

OtherGrants(w) == {g \in pageGrants : ~(g.page = job[w].page /\ g.of = job[w].of)}

\* set_wiki_page_permission
SetPageGrant(w) ==
  /\ At(w, "page grant", "write")
  /\ pageGrants' = OtherGrants(w) \cup {[page |-> job[w].page, of |-> job[w].of, level |-> job[w].level]}
  /\ Respond(w)
  /\ UNCHANGED <<pages, pageVersions, wikiGrants, replaced, astray>>

\* remove_wiki_page_permission
RemovePageGrant(w) ==
  /\ At(w, "page ungrant", "write")
  /\ pageGrants' = OtherGrants(w)
  /\ Respond(w)
  /\ UNCHANGED <<pages, pageVersions, wikiGrants, replaced, astray>>

CheckWikiGrant(w) ==
  /\ At(w, "wiki grant", "check")
  /\ Unless(w, WikiLevel(job[w].by) < May.owner, "write")
  /\ UNCHANGED wikiTables

CheckWikiUngrant(w) ==
  /\ At(w, "wiki ungrant", "check")
  /\ Unless(w, WikiLevel(job[w].by) < May.owner, "write")
  /\ UNCHANGED wikiTables

\* set_wiki_permission
SetWikiGrant(w) ==
  /\ At(w, "wiki grant", "write")
  /\ wikiGrants' = [wikiGrants EXCEPT ![job[w].of] = job[w].level]
  /\ Respond(w)
  /\ UNCHANGED <<pages, pageVersions, pageGrants, replaced, astray>>

\* remove_wiki_permission: who has none may look.
RemoveWikiGrant(w) ==
  /\ At(w, "wiki ungrant", "write")
  /\ wikiGrants' = [wikiGrants EXCEPT ![job[w].of] = "view"]
  /\ Respond(w)
  /\ UNCHANGED <<pages, pageVersions, pageGrants, replaced, astray>>

-----------------------------------------------------------------------------

NextWiki ==
  \E w \in Threads :
    \/ TakeWikiRequest(w)
    \/ CheckPage(w) \/ InsertPage(w)
    \/ CheckSave(w) \/ CompareVersion(w) \/ CheckRevertPage(w)
    \/ NumberPageVersion(w) \/ InsertPageVersion(w) \/ UpdatePage(w)
    \/ CheckMovePage(w) \/ MovePage(w) \/ CheckDeletePage(w) \/ DeletePage(w)
    \/ CheckPageGrant(w) \/ SetPageGrant(w) \/ CheckPageUngrant(w) \/ RemovePageGrant(w)
    \/ CheckWikiGrant(w) \/ SetWikiGrant(w) \/ CheckWikiUngrant(w) \/ RemoveWikiGrant(w)

WikiSpec == InitWiki /\ [][NextWiki]_wikiVars

-----------------------------------------------------------------------------
(* Properties *)

WikiTypes ==
  /\ \A p \in DOMAIN pages :
       pages[p] \in [parent : 0 .. Len(pages), slug : Titles \X Nat, title : Titles, text : Texts,
                     by : Writers, here : BOOLEAN]
  /\ pageVersions \subseteq [page : DOMAIN pages, number : Nat \ {0}, title : Titles, text : Texts]
  /\ pageGrants \subseteq [page : DOMAIN pages, of : Writers, level : {0, 1, 2}]
  /\ wikiGrants \in [Writers -> DOMAIN May]

\* No page and no text is lost.  A live page lies under live ones, so that it
\* can be reached, unless a request has put it under one that was deleted, which
\* nobody checks (wiki_handler.cpp:284 and :649).  The versions of a page are
\* numbered without a gap, however many requests write them at once
\* (database.cpp:6277).  Of requests served in turn, what a kept save or a
\* revert has replaced is among them (:479 and :963); of two at once, the one
\* that writes last replaces what it has never read.
PagesAndTextsKept ==
  /\ \A p \in DOMAIN pages :
       /\ LivePage(p) => pages[p].parent = Top \/ LivePage(pages[p].parent) \/ p \in astray
       /\ {v.number : v \in PageVersionsOf(p)} = 1 .. Cardinality(PageVersionsOf(p))
  /\ OneAtATime =>
       \A old \in replaced :
         \E v \in PageVersionsOf(old.page) : v.title = old.title /\ v.text = old.text
=============================================================================
