------------------------------- MODULE Widget -------------------------------
(* The address box that embed.ts puts on other sites' pages: one text field *)
(* with its panel of suggestions.  What is typed is searched for once the   *)
(* keys rest; a chosen street is searched in; long lists are continued page *)
(* by page; a chosen address fills the form and has its riding looked up.   *)
(* The searches, the lookups and three timers finish in any order.          *)
(*                                                                          *)
(* A search that was aborted may still be answered (its body had arrived,   *)
(* or the page has no AbortController).  Not here: marking-up, positions,   *)
(* the callbacks and the methods a page may call itself, and destroy.       *)
EXTENDS Naturals, Sequences

CONSTANTS
  Texts,        \* what the field can hold
  Short, Empty, \* the texts below minLength, of which one is empty
  Streets, Civics,
  TextOf,       \* the text a chosen suggestion puts into the field
  Lists,        \* Lists[text, street]: what the server lists for it,
  PageEnds,     \* and where each page of that list ends
  NoStreet, Nothing,
  MaxTyped,     \* bound: edits by the user
  MaxSent,      \* bound: searches sent
  MaxLeft       \* bound: times the user leaves the field

Questions == Texts \X (Streets \cup {NoStreet})

(* A search as sent: its number, and the page its cursor asks for. *)
Searches == [seq : Nat, text : Texts, container : Streets \cup {NoStreet}, page : Nat]

ASSUME WidgetConstants ==
  /\ Short \subseteq Texts /\ Empty \in Short
  /\ TextOf \in [Streets \cup Civics -> Texts]
  /\ Lists \in [Questions -> Seq(Streets \cup Civics)]
  /\ PageEnds \in [Questions -> Seq(Nat) \ {<<>>}]
  /\ \A q \in Questions : \A n \in 1 .. Len(PageEnds[q]) :
       /\ PageEnds[q][n] <= Len(Lists[q])
       /\ n # Len(PageEnds[q]) => PageEnds[q][n] <= PageEnds[q][n + 1]
  /\ Nothing \notin Searches \cup Civics

VARIABLES
  text, container,            \* the field, and the street it searches in
  items, more, lastQuery,     \* the list; the page the last row asks for, or 0; its text
  panel, active,              \* "closed", or what it shows; the row marked, or 0
  seq, requests,              \* searches: the last number, and those not answered
  timer, waiting, indicator,  \* the debounce; the delay of the indicator, and the indicator
  blurred,                    \* the field was left, and the panel is about to close
  lookups, riding,            \* lookups not answered; the address whose riding is shown
  typed, left,
  listed,                     \* auxiliary: what was asked for the list, or Nothing
  owner,                      \* auxiliary: the search whose list is to be shown
  strayed,                    \* auxiliary: the last search gone astray, or 0; see Strays
  chosen, raced               \* auxiliary: the address chosen last, unless edited since; and
                              \* whether a lookup failed or met another one since

box == <<text, container>>
list == <<items, more, lastQuery, listed>>
shown == <<panel, active>>
searching == <<seq, requests, owner>>
timers == <<timer, waiting, indicator, blurred>>
form == <<lookups, riding, chosen, raced>>
boxVars == <<box, list, shown, searching, timers, form, typed, left, strayed>>

RowCount == Len(items) + (IF more # 0 THEN 1 ELSE 0)

Closes == panel' = "closed" /\ active' = 0

(* setLoading *)
LoadingStarts == waiting' = TRUE /\ UNCHANGED indicator
LoadingEnds == waiting' = FALSE /\ indicator' = FALSE

-----------------------------------------------------------------------------
(* Searching *)

Sends(what, street, page) ==
  /\ seq < MaxSent
  /\ seq' = seq + 1
  /\ requests' = requests \cup
       {[seq |-> seq + 1, text |-> what, container |-> street, page |-> page]}
  /\ LoadingStarts

(* The two ways for a list to become something else than one answer: the    *)
(* field is emptied while a search is under way, which is neither aborted   *)
(* nor outdated by that; and a page is asked for of another street, or of   *)
(* none, the one the list is of having been left or another one chosen.     *)
Strays(n) == strayed' = n

(* search *)
Search(what, street) ==
  \/ /\ what \in Short
     /\ LoadingEnds
     /\ items' = <<>> /\ more' = 0 /\ listed' = Nothing
     /\ Closes
     /\ Strays(IF \E r \in requests : r.seq = seq THEN seq ELSE strayed)
     /\ UNCHANGED <<lastQuery, searching>>
  \/ /\ what \notin Short
     /\ Sends(what, street, 1) /\ owner' = seq + 1
     /\ UNCHANGED <<list, shown, strayed>>

(* loadMore *)
LoadMore ==
  /\ Sends(lastQuery, container, more)
  /\ owner' = IF listed = Nothing THEN owner ELSE listed.seq
  /\ Strays(IF listed = Nothing \/ listed.container # container THEN seq + 1 ELSE strayed)
  /\ UNCHANGED <<list, shown>>

(* MUTANT of Superseded: the numbers are not compared. *)
AllCurrent(r) == FALSE

Superseded(r) == r.seq # seq

Shows(rows) == /\ items' = rows
               /\ panel' = IF rows = <<>> THEN "closed" ELSE "rows"

ListOf(r) == Lists[<<r.text, r.container>>]
EndsOf(r) == PageEnds[<<r.text, r.container>>]
PageCount(r) == Len(EndsOf(r))

(* The page a request gets: of a shorter list than its cursor says, none.   *)
PageOf(r) ==
  IF r.page \notin 1 .. PageCount(r) THEN <<>>
  ELSE SubSeq(ListOf(r), IF r.page = 1 THEN 1 ELSE EndsOf(r)[r.page - 1] + 1, EndsOf(r)[r.page])

NextPage(r, n) == IF n < PageCount(r) THEN n + 1 ELSE 0

Answered(r) == requests' = requests \ {r} /\ UNCHANGED <<box, seq, owner, timer, blurred, form, typed, left>>

SearchAnswered(r) ==
  /\ r.page = 1 /\ ~Superseded(r)
  /\ LoadingEnds
  /\ items' = PageOf(r) /\ active' = 0 /\ more' = NextPage(r, r.page)
  /\ lastQuery' = r.text /\ listed' = r
  /\ panel' = IF PageOf(r) = <<>> THEN "notice" ELSE "rows"

MoreAnswered(r) ==
  /\ r.page # 1 /\ ~Superseded(r)
  /\ LoadingEnds
  /\ Shows(items \o PageOf(r)) /\ more' = NextPage(r, r.page)
  /\ active' = IF PageOf(r) # <<>> THEN Len(items) + 1 ELSE IF items = <<>> THEN 0 ELSE active
  /\ UNCHANGED <<lastQuery, listed>>

SearchFails(r) ==
  /\ r.page = 1 /\ ~Superseded(r)
  /\ LoadingEnds
  /\ items' = <<>> /\ more' = 0 /\ listed' = Nothing
  /\ panel' = "notice" /\ active' = 0
  /\ UNCHANGED lastQuery

(* MUTANT of MoreFails: the indicator is left to a search that succeeds. *)
MoreFailsQuietly(r) ==
  /\ r.page # 1 /\ ~Superseded(r)
  /\ Shows(items)
  /\ active' = IF items = <<>> THEN 0 ELSE active
  /\ UNCHANGED <<more, lastQuery, listed, waiting, indicator>>

(* What is on the screen stays, and with it the row that asks again. *)
MoreFails(r) ==
  /\ r.page # 1 /\ ~Superseded(r)
  /\ LoadingEnds
  /\ Shows(items)
  /\ active' = IF items = <<>> THEN 0 ELSE active
  /\ UNCHANGED <<more, lastQuery, listed>>

Outdated(r) == Superseded(r) /\ UNCHANGED <<list, shown, waiting, indicator>>

Answers == \E r \in requests :
  /\ \/ SearchAnswered(r) \/ MoreAnswered(r) \/ SearchFails(r) \/ MoreFails(r) \/ Outdated(r)
  /\ Answered(r) /\ UNCHANGED strayed

-----------------------------------------------------------------------------
(* Choosing *)

(* programmatic: onInput ignores what the box writes itself. *)
Writes(what, street) == text' = what /\ container' = street /\ UNCHANGED timer

(* A street or a building is searched in. *)
SelectContainer(s) ==
  /\ s \in Streets
  /\ Writes(TextOf[s], s)
  /\ Search(text', container')
  /\ chosen' = Nothing
  /\ UNCHANGED <<lookups, riding, raced>>

(* fillAddress, resolveRiding *)
SelectAddress(s) ==
  /\ s \in Civics
  /\ Writes(TextOf[s], NoStreet)
  /\ more' = 0
  /\ Closes
  /\ lookups' = lookups \cup {s}
  /\ chosen' = s /\ raced' = (lookups # {})
  /\ UNCHANGED <<items, lastQuery, listed, searching, waiting, indicator, riding, strayed>>

Select(i) ==
  /\ i \in 1 .. RowCount
  /\ \/ i > Len(items) /\ LoadMore /\ UNCHANGED <<box, timer, form>>
     \/ i <= Len(items) /\ (SelectContainer(items[i]) \/ SelectAddress(items[i]))
  /\ UNCHANGED <<blurred, typed, left>>

RidingAnswered(s) ==
  /\ s \in lookups
  /\ lookups' = lookups \ {s}
  /\ \/ riding' = s /\ UNCHANGED raced
     \/ raced' = TRUE /\ UNCHANGED riding
  /\ UNCHANGED <<box, list, shown, searching, timers, typed, left, strayed, chosen>>

-----------------------------------------------------------------------------
(* The user, and the timers *)

(* onInput: any edit leaves the street. *)
Types(what) ==
  /\ typed < MaxTyped /\ typed' = typed + 1
  /\ text' = what /\ what # text
  /\ container' = NoStreet
  /\ timer' = TRUE
  /\ chosen' = Nothing
  /\ UNCHANGED <<list, shown, searching, waiting, indicator, blurred, lookups, riding, raced, left,
                 strayed>>

Debounced ==
  /\ timer /\ timer' = FALSE
  /\ Search(text, container)
  /\ UNCHANGED <<box, blurred, form, typed, left>>

(* onKeyDown *)
ArrowOpens ==
  /\ panel = "closed" /\ text # Empty
  /\ Search(text, container)
  /\ UNCHANGED <<box, timer, blurred, form, typed, left>>

ArrowMoves ==
  /\ panel # "closed" /\ RowCount > 0
  /\ active' \in {(active % RowCount) + 1, IF active <= 1 THEN RowCount ELSE active - 1}
  /\ UNCHANGED <<box, list, panel, searching, timers, form, typed, left, strayed>>

Enter == panel # "closed" /\ active > 0 /\ Select(active)

(* onPanelMouseDown: on a row that is drawn. *)
Clicks == panel = "rows" /\ \E i \in 1 .. RowCount : Select(i)

Escape ==
  /\ panel # "closed"
  /\ Closes
  /\ UNCHANGED <<box, list, searching, timers, form, typed, left, strayed>>

(* A click elsewhere: onDocumentDown, and the field is left. *)
Leaves ==
  /\ left < MaxLeft /\ left' = left + 1
  /\ Closes
  /\ blurred' = TRUE
  /\ UNCHANGED <<box, list, searching, timer, waiting, indicator, form, typed, strayed>>

BlurCloses ==
  /\ blurred /\ blurred' = FALSE
  /\ Closes
  /\ UNCHANGED <<box, list, searching, timer, waiting, indicator, form, typed, left, strayed>>

(* The first search from a closed panel opens it, without a row, for the    *)
(* indicator to be seen.                                                    *)
IndicatorShows ==
  /\ waiting /\ waiting' = FALSE
  /\ indicator' = TRUE
  /\ panel' = IF panel = "closed" THEN "blank" ELSE panel
  /\ UNCHANGED <<box, list, active, searching, timer, blurred, form, typed, left, strayed>>

-----------------------------------------------------------------------------

User == \/ \E what \in Texts : Types(what)
        \/ ArrowOpens \/ ArrowMoves \/ Enter \/ Clicks \/ Escape \/ Leaves

Machine == Debounced \/ Answers \/ BlurCloses \/ IndicatorShows

Lookup == \E s \in Civics : RidingAnswered(s)

BoxInit ==
  /\ text \in Short /\ container = NoStreet
  /\ items = <<>> /\ more = 0 /\ lastQuery = text /\ listed = Nothing
  /\ panel = "closed" /\ active = 0
  /\ seq = 0 /\ owner = 0 /\ requests = {}
  /\ timer = FALSE /\ waiting = FALSE /\ indicator = FALSE /\ blurred = FALSE
  /\ lookups = {} /\ riding = Nothing /\ chosen = Nothing /\ raced = FALSE
  /\ typed = 0 /\ left = 0 /\ strayed = 0

BoxNext == User \/ Machine \/ Lookup

(* Timers fire, and a search or a lookup is answered or fails. *)
BoxSpec == BoxInit /\ [][BoxNext]_boxVars
             /\ WF_boxVars(Debounced) /\ WF_boxVars(BlurCloses) /\ WF_boxVars(IndicatorShows)
             /\ WF_boxVars(Answers) /\ WF_boxVars(Lookup)

-----------------------------------------------------------------------------
(* Properties *)

Astray == IF listed = Nothing THEN strayed > 0 ELSE strayed >= listed.seq

FirstPages(r, n) == SubSeq(ListOf(r), 1, EndsOf(r)[n])

(* "so a slow early keystroke can never overwrite the results of a later    *)
(* one" (embed.ts:545): whatever is answered late or twice, the list is the *)
(* first pages of what the last search that was answered asked for, none of *)
(* them missing or twice, its last row asks for the next one, and as long   *)
(* as that street was not left it is a list of the street that was chosen.  *)
(* Excepted is a list gone astray in one of the two ways above: it may mix  *)
(* two answers, until a search sent after that is answered.                 *)
ListIsOneAnswer ==
  items # <<>> /\ ~Astray =>
    /\ listed # Nothing
    /\ \E n \in 1 .. PageCount(listed) :
         items = FirstPages(listed, n) /\ more \in {0, NextPage(listed, n)}
    /\ listed.seq = owner \/ \E r \in requests : r.seq = owner
    /\ seq = listed.seq /\ container # NoStreet => listed.container = container

(* The form is consistent: as long as nothing is edited the field holds the *)
(* address chosen, and when nothing is being looked up any more the riding  *)
(* shown is that of this address, unless its lookup failed, which leaves    *)
(* the riding as it was, or met that of another choice: the last one to be  *)
(* answered has its riding shown, and it need not be the last one chosen.   *)
FormAgrees ==
  chosen # Nothing => /\ text = TextOf[chosen]
                      /\ lookups = {} /\ ~raced => riding = chosen

(* What the visitor sees belongs together: the list, and the form, but for  *)
(* lists gone astray and lookups that failed or met.                        *)
BoxAgrees == ListIsOneAnswer /\ FormAgrees

(* "cleared the moment the request settles or a newer request supersedes    *)
(* it": the indicator does not stay on, whichever searches are aborted,     *)
(* fail or are answered late.                                               *)
IndicatorEnds == (waiting \/ indicator) ~> (~waiting /\ ~indicator)
=============================================================================
