----------------------------- MODULE GpssBrowser -----------------------------
(***************************************************************************)
(* Paging over a search on the server (common/source/GpssBrowser.cpp): the *)
(* page on screen and the two beside it, fetched ahead on the fetch        *)
(* thread, while what the search finds grows and shrinks on the server.    *)
(* A Slot is the request that fills it; of a page only the total is kept   *)
(* that came with it.                                                      *)
(***************************************************************************)
EXTENDS Fetch

CONSTANTS
    Searches,    \* what Query tells apart
    Totals,      \* bound: how much a search may find
    PerPage,     \* how much of it the server puts on a page
    MaxChanges   \* bound: how often that changes

ASSUME BrowserAssumption ==
    Totals \subseteq Nat /\ PerPage \in Nat \ {0} /\ MaxChanges \in Nat

NoSlot == <<"none", 0>>

VARIABLES
    total, changes,       \* the server: how much there is, how often that has changed
    built,                \* how many page requests there have been
    asked,                \* the search and the number each was built for
    body,                 \* the total each was answered with
    searchQuery, current, next, prev, pageNumber, isGood,
    pc,                   \* where the main thread is in the browser, or in exit
    arriving, number,     \* the slot it waits for, and the page number that one will be
    beyond                \* history: since the last refresh, a page past the last was shown

serverVars == <<total, changes>>
slotVars == <<built, asked, body>>
pageVars == <<searchQuery, current, next, prev, pageNumber, isGood>>
waitVars == <<arriving, number, beyond>>
mainVars == <<pc, waitVars>>
vars == <<fetchVars, serverVars, slotVars, pageVars, mainVars>>

Page(n) == <<"page", n>>
PageRequests == {"page"} \X (1..MaxRequests)

Init == /\ FetchInit
        /\ total \in Totals /\ changes = 0
        /\ built = 0
        /\ asked = [r \in PageRequests |-> <<>>]
        /\ body = [r \in PageRequests |-> 0]
        /\ searchQuery \in Searches
        /\ current = NoSlot /\ next = NoSlot /\ prev = NoSlot
        /\ pageNumber = 1 /\ isGood = FALSE
        /\ pc = "closed" /\ arriving = NoSlot /\ number = 1 /\ beyond = FALSE

\* The pages a total makes; pages() is at least one.
Pages(t) == IF t <= PerPage THEN 1 ELSE (t + PerPage - 1) \div PerPage

\* slot->contents, once ready has published it
HasContents(slot) == Answered(slot) /\ Answer(slot) = "page"
PagesOf(slot) == IF HasContents(slot) THEN Pages(body[slot]) ELSE 1

After(n, pages) == (n % pages) + 1

Before(n, pages) == IF n - 1 = 0 THEN pages ELSE n - 1

-------------------------------------------------------------------------------
(* The server.  The body of a page is made while it is transferred. *)

TotalChanges ==
    /\ changes < MaxChanges /\ changes' = changes + 1
    /\ total' \in Totals \ {total}
    /\ UNCHANGED <<fetchVars, slotVars, pageVars, mainVars>>

PageArrives(r) ==
    /\ TransferEnds(r)
    /\ body' = IF verdict'[r] = "page" /\ r \in PageRequests THEN [body EXCEPT ![r] = total] ELSE body
    /\ UNCHANGED <<serverVars, built, asked, pageVars, mainVars>>

-------------------------------------------------------------------------------

\* fetch and fetchNow, for one page after the other
Ask(search, numbers) ==
    /\ built' = built + Len(numbers)
    /\ Submit({Page(built + i) : i \in 1..Len(numbers)})
    /\ asked' = [r \in PageRequests |->
                   IF r[2] \in (built + 1)..(built + Len(numbers))
                   THEN <<search, numbers[r[2] - built]>> ELSE asked[r]]
    /\ UNCHANGED <<body, fetcherVars, cancelling, fileVars, serverVars>>

AskNothing == UNCHANGED <<fetchVars, serverVars, slotVars>>

Main(from, to) == pc = from /\ pc' = to

\* refresh up to its wait.  It follows a new search, a jump to another page and
\* an upload, and begins the life of a browser.
Refresh(search, n) ==
    /\ built + 4 <= MaxRequests
    /\ searchQuery' = search /\ pageNumber' = n
    /\ Ask(search, <<n>>)
    /\ arriving' = Page(built + 1) /\ number' = n /\ beyond' = FALSE

Open == /\ Main("closed", "first") /\ built = 0 /\ "browser" \in company
        /\ \E s \in Searches : Refresh(s, 1)
        /\ UNCHANGED <<current, next, prev, isGood>>

RefreshBegins ==
    /\ Main("idle", "first") /\ isGood
    /\ \/ \E s \in Searches : Refresh(s, pageNumber)
       \/ \E n \in 1..PagesOf(current) : Refresh(searchQuery, n)
    /\ UNCHANGED <<current, next, prev, isGood>>

\* adopt fails: the screen says so and asks to be popped.
AdoptFails ==
    /\ pc \in {"first", "last", "forward", "back"} /\ pc' = "idle"
    /\ Answered(arriving) /\ ~HasContents(arriving)
    /\ current' = arriving /\ isGood' = FALSE
    /\ AskNothing
    /\ UNCHANGED <<searchQuery, next, prev, pageNumber, waitVars>>

Adopt(from, to) ==
    /\ Main(from, to)
    /\ HasContents(arriving)
    /\ current' = arriving /\ pageNumber' = number /\ isGood' = TRUE
    /\ UNCHANGED searchQuery

Adopted == PagesOf(arriving)
StayPut == UNCHANGED <<arriving, number>> /\ beyond' = (beyond \/ number > Adopted)

\* Both neighbours are asked for.  With two pages they are one, other.
BothNeighbours(other) ==
    IF Adopted = 1 THEN AskNothing /\ next' = arriving /\ prev' = arriving
    ELSE /\ next' = Page(built + 1)
         /\ IF Adopted = 2
            THEN prev' = next' /\ Ask(searchQuery, <<other>>)
            ELSE /\ prev' = Page(built + 2)
                 /\ Ask(searchQuery, <<After(number, Adopted), Before(number, Adopted)>>)

RefreshEnds ==
    /\ \/ Adopt("first", "idle") /\ number <= Adopted
       \/ Adopt("last", "idle")
    /\ BothNeighbours(After(number, Adopted))
    /\ StayPut

\* The search has shrunk under the page number: its last page comes instead.
RefreshLast ==
    /\ Adopt("first", "last")
    /\ number > Adopted
    /\ Ask(searchQuery, <<Adopted>>)
    /\ arriving' = Page(built + 1) /\ number' = Adopted
    /\ UNCHANGED <<next, prev, beyond>>

-------------------------------------------------------------------------------
(* nextPage and prevPage *)

TurnTo(to, slot, n) ==
    /\ Main("idle", to) /\ isGood
    /\ built + 2 <= MaxRequests
    /\ arriving' = slot /\ number' = n
    /\ UNCHANGED beyond
    /\ AskNothing
    /\ UNCHANGED pageVars

TurnForward == TurnTo("forward", next, After(pageNumber, PagesOf(current)))
TurnBack == TurnTo("back", prev, Before(pageNumber, PagesOf(current)))

\* Variant: the page departed from is kept whatever has come since.
TrustDeparted == TRUE

\* Nobody has uploaded while we were paging.
SameTotal == HasContents(current) => body[arriving] = body[current]

\* The page departed from is a neighbour for free, unless the total has changed.
TurnEndsForward ==
    /\ Adopt("forward", "idle")
    /\ IF Adopted > 2 /\ SameTotal
       THEN /\ prev' = current
            /\ next' = Page(built + 1)
            /\ Ask(searchQuery, <<After(number, Adopted)>>)
       ELSE BothNeighbours(After(number, Adopted))
    /\ StayPut

TurnEndsBack ==
    /\ Adopt("back", "idle")
    /\ IF Adopted > 2 /\ SameTotal
       THEN /\ next' = current
            /\ prev' = Page(built + 1)
            /\ Ask(searchQuery, <<Before(number, Adopted)>>)
       ELSE BothNeighbours(Before(number, Adopted))
    /\ StayPut
-------------------------------------------------------------------------------
(* A page that fails has the screen popped (GpssScreen.cpp): nothing more is *)
(* asked of the browser then.                                                *)

ExitBegins ==
    /\ Main("idle", "clear") \/ Main("closed", "clear")
    /\ StopFetching
    /\ UNCHANGED <<serverVars, slotVars, pageVars, waitVars>>

ExitEnds ==
    /\ Main("clear", "down")
    /\ ClearInFlight
    /\ UNCHANGED <<serverVars, slotVars, pageVars, waitVars>>

-------------------------------------------------------------------------------

Waiting == pc \in {"first", "last", "forward", "back"}
Adopting == AdoptFails \/ RefreshEnds \/ RefreshLast \/ TurnEndsForward \/ TurnEndsBack
Browsing == Open \/ RefreshBegins \/ TurnForward \/ TurnBack
Exiting == ExitBegins \/ ExitEnds
Beside == UNCHANGED <<serverVars, slotVars, pageVars, mainVars>>

Next == \/ TotalChanges
        \/ \E r \in Requests : PageArrives(r)
        \/ (FetcherSteps \/ CancelSteps \/ DownloadSteps) /\ Beside
        \/ Browsing \/ Adopting \/ Exiting

Spec == Init /\ [][Next]_vars

(***************************************************************************)
(* The threads run when they can.  Every transfer comes to an end, for curl *)
(* gives up one that stalls (the stall guard and the timeouts of build).   *)
(* Nobody has to turn a page, cancel, begin a download or leave.           *)
(***************************************************************************)
Fairness ==
    /\ WF_vars(Adopting) /\ WF_vars(ExitEnds)
    /\ WF_vars(FetcherSteps /\ Beside)
    /\ WF_vars(\E r \in Requests : PageArrives(r))
    /\ WF_vars(CancelAnswers /\ Beside) /\ WF_vars(DownloadReturns /\ Beside)

FairSpec == Spec /\ Fairness

===============================================================================
